---- MODULE Spec2Model ----
(***************************************************************************)
(* A model of the GOAT scraping pipeline: the retry loops (GoatFacts.py,   *)
(* goatPDPAPI.py, listingsAPI.py), the batch drivers GoatFacts.main and    *)
(* goatPDPAPI.scrape_all_products, the page loop of                        *)
(* listingsAPI.scrape_all_pages, the resumable image uploader              *)
(* upload_goat_images.py and its upload retry loop                         *)
(* _upload_file_blocking_with_retries.  One variable, prog, says which     *)
(* program runs; every program has its own initial predicate and           *)
(* next-state relation.                                                    *)
(*                                                                         *)
(* Python values: a str is a sequence of one-character strings where the   *)
(* code looks inside it (strip), a plain TLA+ string where it only copies  *)
(* it; None is the string "None" (no program value of the model is that    *)
(* text); an HTTP status is the string of its digits.                      *)
(***************************************************************************)
EXTENDS Integers, Sequences, FiniteSets, TLC

VARIABLES
    prog,            \* which program this behaviour runs
    pc,              \* position of the program's main thread
    csv_in,          \* GoatFacts: the URL column of INPUT_CSV, raw cell texts
    cfg,             \* GoatFacts: "ok", "no_input" (file missing), "no_url_col"
    out_file,        \* GoatFacts: OUTPUT_CSV on disk
    prior,           \* GoatFacts: OUTPUT_CSV as it was when the run started
    df,              \* GoatFacts: the URL column after pd.read_csv
    unique_urls,     \* GoatFacts: main's unique_urls
    results_map,     \* GoatFacts: main's results_map
    written_flags,   \* GoatFacts: main's written_flags
    header_written,  \* GoatFacts: main's header_written
    batch_start,     \* GoatFacts: the batch loop's batch_start
    fut,             \* GoatFacts: the futures of the executor, by URL
    submitted,       \* GoatFacts: how often fetch_once was submitted, by URL
    flushes,         \* GoatFacts: calls of append_resolved_rows_to_output so far
    completed,       \* GoatFacts: the URLs of the latest batch in the order
                     \*   as_completed yielded them
    fn,              \* retry loop: which of the four loops is called
    have_curl,       \* retry loop: HAVE_CURL_CFFI
    loop,            \* retry loop: attempt, last_status, sleeps so far, return value
    stage,           \* retry loop: position inside the loop body
    persona,         \* retry loop: try_curl_cffi's position in its persona list
    resp,            \* retry loop: the local resp of the current iteration
    calls,           \* retry loop: transports invoked in the current iteration,
                     \*   each with what it gave: "raise" or the HTTP status
    attempts,        \* retry loop: iterations of the loop body begun so far
    answered,        \* retry loop: the transport that returned the latest response
    answered_status, \* retry loop: the status of the latest response
    requests_issued, \* retry loop: transports invoked since the call began
    rate_limited,    \* retry loop: an attempt of the call got a 429 response
    listings,        \* upload: the rows of INPUT_CSV (Product ID, Picture URL)
    prev,            \* upload: OUTPUT_CSV as the earlier run left it
    up_csv,          \* upload: OUTPUT_CSV on disk
    product_id_to_drive_url,   \* upload: the module's dict of that name
    product_id_to_dimensions,  \* upload: the module's dict of that name
    products_to_process,       \* upload: the unique (Product ID, Picture URL) list
    processed,       \* upload: items of the batches done so far
    tasks,           \* upload: the coroutines of the current batch, by Product ID
    started,         \* upload: how often download_image was called, by Product ID
    saves,           \* upload: how often OUTPUT_CSV was written by this run
    listing_csv,     \* goatPDPAPI: INPUT_CSV, the Product ID of each row
    products,        \* goatPDPAPI: scrape_all_products' products
    pdp_csv,         \* goatPDPAPI: OUTPUT_CSV on disk
    products_start,  \* goatPDPAPI: the batch loop's batch_start
    future_to_product,  \* goatPDPAPI: the futures of the batch, by position
    batch_rows,      \* goatPDPAPI: the batch loop's batch_rows
    fate,            \* goatPDPAPI: what the collect loop did with each product
    goat_listings,   \* listingsAPI: goat_listings.csv on disk
    base_url,        \* listingsAPI: position of the outer loop in SEARCH_URLS
    page_number,     \* listingsAPI: scrape_all_pages' page_number
    wrote_header,    \* listingsAPI: scrape_all_pages' wrote_header
    written_product_ids,  \* listingsAPI: scrape_all_pages' set of that name
    all_data,        \* listingsAPI: scrape_all_pages' all_data, the ids only
    data,            \* listingsAPI: scrape_all_pages' data, the page fetched last
    uploader         \* _upload_file_blocking_with_retries: its arguments and
                     \*   locals, and what its attempts did so far

mainVars == <<csv_in, cfg, out_file, prior, df, unique_urls, results_map,
              written_flags, header_written, batch_start, fut, submitted, flushes,
              completed>>

retryVars == <<fn, have_curl, loop, stage, persona, resp, calls, attempts, answered,
               answered_status, requests_issued, rate_limited>>

uploadVars == <<listings, prev, up_csv, product_id_to_drive_url,
                product_id_to_dimensions, products_to_process, processed, tasks,
                started, saves>>

pdpVars == <<listing_csv, products, pdp_csv, products_start, future_to_product,
             batch_rows, fate>>

listingsVars == <<goat_listings, base_url, page_number, wrote_header,
                  written_product_ids, all_data, data>>

vars == <<prog, pc, mainVars, retryVars, uploadVars, pdpVars, listingsVars,
          uploader>>

\* the variables of the other programs
notMain == <<retryVars, uploadVars, pdpVars, listingsVars, uploader>>
notRetry == <<mainVars, uploadVars, pdpVars, listingsVars, uploader>>
notUpload == <<mainVars, retryVars, pdpVars, listingsVars, uploader>>
notPdp == <<mainVars, retryVars, uploadVars, listingsVars, uploader>>
notListings == <<mainVars, retryVars, uploadVars, pdpVars, uploader>>
notUploader == <<mainVars, retryVars, uploadVars, pdpVars, listingsVars>>

----------------------------------------------------------------------------
(* Bounds of the model *)

\* rows of the input CSV
MaxRows == 3
\* GoatFacts.py:30 sets 10; the model runs the same loop with a smaller batch
BATCH_SAVE_SIZE == 2
\* GoatFacts.py:31 sets 10; the model runs the same pool with fewer workers
MAX_WORKERS == 2
\* upload_goat_images.py:27 sets 50; the model runs the same loop with a smaller batch
BATCH_SIZE == 2
\* upload_goat_images.py:28 sets 6; the model runs with a smaller semaphore
CONCURRENCY == 1
\* goatPDPAPI.py:27 sets BATCH_SIZE to 10; the model runs the same loop with a
\* smaller batch
PDP_BATCH_SIZE == 2
\* goatPDPAPI.py:29 sets MAX_WORKERS to 10; the model runs the same pool with
\* fewer workers than a batch has products
PDP_MAX_WORKERS == 1
\* products on one page of search results
MaxPageLen == 2
\* GoatFacts.py:28, goatPDPAPI.py:21, listingsAPI.py:26
MAX_RETRIES == 5

----------------------------------------------------------------------------
(* Python values *)

None == "None"

\* truthiness of a str-or-None value
Truthy(v) == v # None /\ v # ""

\* a writer that puts the text of None into the field
CsvText_Raw(v) == v

\* csv.DictWriter writes None as the empty field and a str as it is
CsvText(v) == IF v = None THEN "" ELSE v

Range(s) == {s[i] : i \in 1..Len(s)}

RECURSIVE LStrip(_)
LStrip(s) == IF s # <<>> /\ Head(s) = " " THEN LStrip(Tail(s)) ELSE s

RECURSIVE RStrip(_)
RStrip(s) ==
    IF s # <<>> /\ s[Len(s)] = " " THEN RStrip(SubSeq(s, 1, Len(s) - 1)) ELSE s

\* str.strip()
Strip(s) == RStrip(LStrip(s))

\* a cell of a DataFrame read with dtype=str: NaN or a str
NaN == [nan |-> TRUE, text |-> <<>>]
StrCell(t) == [nan |-> FALSE, text |-> t]

\* pd.read_csv(..., dtype=str): an empty field is NaN, any other text is kept
ReadCsvCell(t) == IF t = <<>> THEN NaN ELSE StrCell(t)

\* Series.fillna("") on one cell
FillNa(c) == IF c.nan THEN <<>> ELSE c.text

\* str(x) of one cell: str(float('nan')) is 'nan'
StrOf(c) == IF c.nan THEN <<"n", "a", "n">> ELSE c.text

----------------------------------------------------------------------------
(* The retry loops: fetch_once (GoatFacts.py), fetch_product_page_html,    *)
(* fetch_product_data (goatPDPAPI.py) and fetch_json_page (listingsAPI.py) *)

HtmlLoops == {"fetch_once", "fetch_product_page_html"}
JsonLoops == {"fetch_product_data", "fetch_json_page"}
Loops == HtmlLoops \cup JsonLoops

Statuses == {"200", "404", "429", "500"}
HtmlBodies == {"full", "nullmeta", "nodata"}
\* a JSON list of variants, an empty list, a JSON object, text that is no JSON
JsonBodies == {"variants", "empty_list", "object", "garbled"}

\* what a transport hands back: no response (it raised), or a response object
NoResp == [status |-> None, body |-> "-"]
Responses(bodies) ==
    {[status |-> "200", body |-> b] : b \in bodies}
        \cup {[status |-> s, body |-> "-"] : s \in Statuses \ {"200"}}
RespsOf(f) == Responses(IF f \in HtmlLoops THEN HtmlBodies ELSE JsonBodies)

\* extract_story_html: (cleaned_html, plain_text), or (None, None) when the page
\* has no __NEXT_DATA__ script or the script has no storyHtml
extract_story_html(body) ==
    IF body = "full" THEN <<"<p>story</p>", "story">> ELSE <<None, None>>

\* extract_product_meta: the four productTemplate fields (None where the
\* template lacks one), or the empty dict when there is no __NEXT_DATA__ script
NoMeta == [empty |-> TRUE, brandName |-> None, color |-> None, sku |-> None,
           designer |-> None]
extract_product_meta(body) ==
    CASE body = "full" ->
            [empty |-> FALSE, brandName |-> "brand", color |-> "color",
             sku |-> "sku", designer |-> "designer"]
      [] body = "nullmeta" -> [NoMeta EXCEPT !.empty = FALSE]
      [] OTHER -> NoMeta

\* Python's  x or ""
OrEmpty(v) == IF Truthy(v) THEN v ELSE ""

\* meta.get(k, "") if meta else ""
MetaGet(meta, v) == IF meta.empty THEN "" ELSE v

NoError == [kind |-> "", attempts |-> 0, last_status |-> None]
ErrorOf(kind) == [NoError EXCEPT !.kind = kind]

\* the dict fetch_once returns on a 200 response
SuccessRecord(status, body) ==
    LET story == extract_story_html(body)
        meta == extract_product_meta(body)
    IN  [story_html |-> OrEmpty(story[1]), story_text |-> OrEmpty(story[2]),
         brandName |-> MetaGet(meta, meta.brandName),
         color |-> MetaGet(meta, meta.color),
         sku |-> MetaGet(meta, meta.sku),
         designer |-> MetaGet(meta, meta.designer),
         http_status |-> status, error |-> NoError]

\* a failure dict whose error says nothing
FailureRecord_Silent(status) ==
    [story_html |-> "", story_text |-> "", brandName |-> "", color |-> "",
     sku |-> "", designer |-> "",
     http_status |-> IF Truthy(status) THEN status ELSE None,
     error |-> NoError]

\* the dict fetch_once returns when all attempts failed;
\* error is f"Failed after {MAX_RETRIES} attempts (last_status={last_status})"
FailureRecord(status) ==
    [story_html |-> "", story_text |-> "", brandName |-> "", color |-> "",
     sku |-> "", designer |-> "",
     http_status |-> IF Truthy(status) THEN status ELSE None,
     error |-> [kind |-> "Failed after", attempts |-> MAX_RETRIES,
                last_status |-> status]]

\* a loop bound off by one:  range(MAX_RETRIES + 1)
LoopContinues_OffByOne(att) == att <= MAX_RETRIES

\* for attempt in range(MAX_RETRIES)
LoopContinues(att) == att < MAX_RETRIES

\* a backoff that doubles: 1, 2, 4, 8, ...
Backoff_Exponential(att) == 2 ^ att

\* wait = 1 + attempt
Backoff(att) == 1 + att
\* wait = 2 + attempt
RateLimitBackoff(att) == 2 + att

\* the state of one call of a retry loop
NewLoop ==
    [attempt |-> 0, last_status |-> None, waits |-> <<>>, returned |-> FALSE,
     value |-> None]

\* a loop that returns after its last attempt without the sleep
Retry_LastUnslept(L, wait) ==
    [L EXCEPT !.attempt = @ + 1,
              !.waits = IF L.attempt + 1 < MAX_RETRIES THEN Append(@, wait) ELSE @]

\* time.sleep(wait), continue
Retry(L, wait) ==
    [L EXCEPT !.attempt = @ + 1, !.waits = Append(@, wait)]

\* the exception of an attempt without a response leaves the loop
TransportFailure_Escapes(L) == [L EXCEPT !.returned = TRUE]

\* a handler that forgets the status of the earlier attempts
TransportFailure_Forgets(L) ==
    [L EXCEPT !.attempt = @ + 1, !.waits = Append(@, 1 + L.attempt),
              !.last_status = None]

\* every transport raised: the RuntimeError of the HTML loops, or the exception
\* of the last transport of the JSON loops, lands in  except Exception:
\* wait = 1 + attempt, sleep, continue
TransportFailure(L) == Retry(L, Backoff(L.attempt))

\* a parse that accepts every body
JsonDecodes_Always(body) == TRUE

\* resp.json() (fetch_json_page falls back to json.loads(resp.text))
JsonDecodes(body) == body # "garbled"

\* the rest of one loop iteration, once the transports have been tried:
\* resp is the response, or NoResp when every transport raised
HandleResponse(f, L, rsp) ==
    IF rsp = NoResp
    THEN TransportFailure(L)
    ELSE LET M == [L EXCEPT !.last_status = rsp.status] IN
         IF f \in HtmlLoops
         THEN IF rsp.status = "200"
              THEN [M EXCEPT !.returned = TRUE,
                             !.value = SuccessRecord(rsp.status, rsp.body)]
              ELSE Retry(M, Backoff(L.attempt))
         ELSE IF rsp.status = "429"
              THEN Retry(M, RateLimitBackoff(L.attempt))
              ELSE IF rsp.status # "200"
                   THEN Retry(M, Backoff(L.attempt))
                   ELSE IF JsonDecodes(rsp.body)
                        THEN [M EXCEPT !.returned = TRUE, !.value = rsp.body]
                        ELSE Retry(M, Backoff(L.attempt))

\* what the loop returns after its last iteration
Exhausted(f, L) ==
    [L EXCEPT !.returned = TRUE,
              !.value = IF f \in HtmlLoops THEN FailureRecord(L.last_status)
                        ELSE None]

\* a whole call, given the response (or NoResp) each attempt would get
RECURSIVE RunLoop(_, _, _)
RunLoop(f, L, resps) ==
    IF L.returned THEN L
    ELSE IF LoopContinues(L.attempt)
         THEN RunLoop(f, HandleResponse(f, L, resps[L.attempt + 1]), resps)
         ELSE Exhausted(f, L)

----------------------------------------------------------------------------
(* GoatFacts.main: the input, the deduplication, the output file *)

\* the raw texts a URL cell of the input CSV may hold
RawCells == {<<>>, <<" ">>, <<"a">>, <<"a", " ">>, <<"b">>, <<"c">>}

\* what an attempt of a fetch of a run of main may get: no response (every
\* transport raised) or the page; SpecRetry follows the loop through the other
\* statuses attempt by attempt
FetchCases ==
    {NoResp, [status |-> "200", body |-> "full"]}

\* every dict a call of fetch_once may return in a run of main
FetchOnceResults ==
    {RunLoop("fetch_once", NewLoop, rs).value : rs \in [1..MAX_RETRIES -> FetchCases]}

NoRecord ==
    [story_html |-> "", story_text |-> "", brandName |-> "", color |-> "",
     sku |-> "", designer |-> "", http_status |-> "", error |-> NoError]

\* what a future holds once its worker is through: the dict, or the exception
NoOutcome == [raised |-> FALSE, value |-> NoRecord]
FetchOutcomes ==
    {[raised |-> FALSE, value |-> r] : r \in FetchOnceResults}
        \cup {[raised |-> TRUE, value |-> NoRecord]}

\* the dict main stores when fut.result() raised
ExceptionRecord ==
    [NoRecord EXCEPT !.http_status = None, !.error = ErrorOf("Exception")]

\* the placeholder dicts of append_resolved_rows_to_output and the final sweep
NoUrlRecord == [NoRecord EXCEPT !.error = ErrorOf("No URL")]
NotFetchedRecord == [NoRecord EXCEPT !.error = ErrorOf("Not fetched")]

NoFile == [exists |-> FALSE, headers |-> 0, rows |-> <<>>]

\* open(OUTPUT_CSV, mode), writeheader() unless header_written, then the rows
WriteOut(file, hw, rows) ==
    LET opened == IF hw THEN [file EXCEPT !.exists = TRUE]
                        ELSE [exists |-> TRUE, headers |-> 0, rows |-> <<>>]
    IN  [opened EXCEPT !.headers = IF hw THEN @ ELSE @ + 1,
                       !.rows = @ \o rows]

\* find the key of a row as the deduplication sees it
DedupKey(c) == Strip(FillNa(c))

\* the deduplication without its check of seen
NotSeen_Always(v, seen) == TRUE

\* v not in seen
NotSeen(v, seen) == v \notin seen

\* the loop that fills unique_urls
RECURSIVE UniqueUrls(_, _, _, _)
UniqueUrls(d, i, seen, acc) ==
    IF i > Len(d) THEN acc
    ELSE LET v == Strip(FillNa(d[i])) IN
         IF v = <<>> THEN UniqueUrls(d, i + 1, seen, acc)
         ELSE IF NotSeen(v, seen)
              THEN UniqueUrls(d, i + 1, seen \cup {v}, Append(acc, v))
              ELSE UniqueUrls(d, i + 1, seen, acc)

\* rowdict = row.fillna("").to_dict(); rowdict.update(mapped); as csv writes it
RowDict(i, c, mapped, by, n) ==
    [idx |-> i, url |-> FillNa(c),
     story_html |-> CsvText(mapped.story_html),
     story_text |-> CsvText(mapped.story_text),
     brandName |-> CsvText(mapped.brandName),
     color |-> CsvText(mapped.color),
     sku |-> CsvText(mapped.sku),
     designer |-> CsvText(mapped.designer),
     http_status |-> CsvText(mapped.http_status),
     error |-> mapped.error,
     by |-> by, flush |-> n]

\* for k in new_columns: if k not in mapped or mapped[k] is None: mapped[k] = ""
EnsureColumns(m) ==
    [story_html |-> CsvText(m.story_html), story_text |-> CsvText(m.story_text),
     brandName |-> CsvText(m.brandName), color |-> CsvText(m.color),
     sku |-> CsvText(m.sku), designer |-> CsvText(m.designer),
     http_status |-> CsvText(m.http_status), error |-> m.error]

\* the row loop without its check of written_flags
AlreadyWritten_Ignored(flags, i) == FALSE

\* if written_flags[idx]: continue
AlreadyWritten(flags, i) == flags[i]

\* url_val = str(row.get(url_col, "")).strip()
UrlVal(c) == Strip(StrOf(c))

\* the row loop of append_resolved_rows_to_output: the flags, the map (whose
\* dicts it updates in place) and rows_to_write after it
RECURSIVE AppendScan(_, _, _, _, _, _)
AppendScan(d, i, flags, rmap, rows, n) ==
    IF i > Len(d) THEN [flags |-> flags, rmap |-> rmap, rows |-> rows]
    ELSE IF AlreadyWritten(flags, i) THEN AppendScan(d, i + 1, flags, rmap, rows, n)
    ELSE LET url_val == UrlVal(d[i]) IN
         IF url_val = <<>>
         THEN AppendScan(d, i + 1, [flags EXCEPT ![i] = TRUE], rmap,
                         Append(rows, RowDict(i, d[i], NoUrlRecord, "flush", n)), n)
         ELSE IF url_val \in DOMAIN rmap
              THEN LET mapped == EnsureColumns(rmap[url_val]) IN
                   AppendScan(d, i + 1, [flags EXCEPT ![i] = TRUE],
                              [rmap EXCEPT ![url_val] = mapped],
                              Append(rows, RowDict(i, d[i], mapped, "flush", n)), n)
              ELSE AppendScan(d, i + 1, flags, rmap, rows, n)

Reverse(q) == [i \in 1..Len(q) |-> q[Len(q) + 1 - i]]

\* a flush that writes its rows last row first
AppendResolved_Reversed(d, flags, rmap, file, hw, n) ==
    LET sc == AppendScan(d, 1, flags, rmap, <<>>, n) IN
    [flags |-> sc.flags, rmap |-> sc.rmap, rows |-> Reverse(sc.rows),
     file |-> IF sc.rows # <<>> THEN WriteOut(file, hw, Reverse(sc.rows)) ELSE file,
     hw |-> hw \/ sc.rows # <<>>]

\* append_resolved_rows_to_output()
AppendResolved(d, flags, rmap, file, hw, n) ==
    LET sc == AppendScan(d, 1, flags, rmap, <<>>, n) IN
    [flags |-> sc.flags, rmap |-> sc.rmap, rows |-> sc.rows,
     file |-> IF sc.rows # <<>> THEN WriteOut(file, hw, sc.rows) ELSE file,
     hw |-> hw \/ sc.rows # <<>>]

\* the dict the final sweep uses for row i
SweepMapped(c, rmap) ==
    LET url_val == UrlVal(c) IN
    IF url_val = <<>> THEN NoUrlRecord
    ELSE IF url_val \in DOMAIN rmap THEN rmap[url_val] ELSE NotFetchedRecord

\* the loop of the final sweep: one open and one writerow per unwritten row
RECURSIVE SweepScan(_, _, _, _, _, _)
SweepScan(d, i, flags, rmap, file, hw) ==
    IF i > Len(d) THEN [flags |-> flags, file |-> file, hw |-> hw]
    ELSE IF flags[i] THEN SweepScan(d, i + 1, flags, rmap, file, hw)
    ELSE SweepScan(d, i + 1, [flags EXCEPT ![i] = TRUE], rmap,
                   WriteOut(file, hw,
                            <<RowDict(i, d[i], SweepMapped(d[i], rmap), "sweep", 0)>>),
                   TRUE)

\* the run ends without the final sweep
FinalSweepOf_Skipped(d, flags, rmap, file, hw) ==
    [flags |-> flags, file |-> file, hw |-> hw]

\* if not all(written_flags): ...
FinalSweepOf(d, flags, rmap, file, hw) ==
    IF \A i \in 1..Len(flags) : flags[i]
    THEN [flags |-> flags, file |-> file, hw |-> hw]
    ELSE SweepScan(d, 1, flags, rmap, file, hw)

----------------------------------------------------------------------------
(* One call of a retry loop, transport by transport *)

\* a persona list with one persona more
Personas_OneMore == <<"chrome124", "chrome123", "chrome120", "chrome119">>

\* for persona in ("chrome124", "chrome123", "chrome120")
Personas == <<"chrome124", "chrome123", "chrome120">>

\* a transport raised
Raised == [status |-> "raise", body |-> "-"]

\* a transport that hands on to the next one unless the status is 200
Answers_OnlyOk(o) == o # Raised /\ o.status = "200"

\* return resp: whatever the get returned is the response of the attempt;
\* only an exception makes try_curl_cffi go on and try_cloudscraper return None
Answers(o) == o # Raised

Call(via, o) == [via |-> via, got |-> o.status]

RetryIdle ==
    /\ fn = "-" /\ have_curl = FALSE /\ loop = NewLoop /\ stage = "-"
    /\ persona = 0 /\ resp = NoResp /\ calls = <<>> /\ attempts = 0
    /\ answered = "-" /\ answered_status = None /\ requests_issued = 0
    /\ rate_limited = FALSE

MainIdle ==
    /\ csv_in = <<>> /\ cfg = "-" /\ out_file = NoFile /\ prior = NoFile
    /\ df = <<>> /\ unique_urls = <<>> /\ results_map = <<>>
    /\ written_flags = <<>> /\ header_written = FALSE /\ batch_start = 0
    /\ fut = <<>> /\ submitted = <<>> /\ flushes = 0 /\ completed = <<>>

PdpIdle ==
    /\ listing_csv = [readable |-> FALSE, rows |-> <<>>]
    /\ products = <<>> /\ pdp_csv = [exists |-> FALSE, headers |-> 0, rows |-> <<>>]
    /\ products_start = 0 /\ future_to_product = <<>> /\ batch_rows = <<>>
    /\ fate = <<>>

\* data before scrape_all_pages has fetched a page
NoData == [kind |-> "-", productsList |-> <<>>, pageLimit |-> 12]

ListingsIdle ==
    /\ goat_listings = [exists |-> FALSE, headers |-> 0, rows |-> <<>>]
    /\ base_url = 0 /\ page_number = 0 /\ wrote_header = FALSE
    /\ written_product_ids = {} /\ all_data = <<>> /\ data = NoData

\* _upload_file_blocking_with_retries has not been called
NoUpload ==
    [module |-> "-", file_path |-> "-", attempts |-> 0, tries |-> <<>>,
     delays |-> <<>>, value |-> None]

UploaderIdle == uploader = NoUpload

UploadIdle ==
    /\ listings = <<>> /\ prev = [exists |-> FALSE, rows |-> <<>>]
    /\ up_csv = [exists |-> FALSE, rows |-> <<>>]
    /\ product_id_to_drive_url = <<>> /\ product_id_to_dimensions = <<>>
    /\ products_to_process = <<>> /\ processed = 0 /\ tasks = <<>>
    /\ started = <<>> /\ saves = 0

InitRetry ==
    /\ prog = "retry" /\ pc = "-"
    /\ fn \in Loops
    /\ have_curl \in BOOLEAN
    /\ loop = NewLoop /\ stage = "top" /\ persona = 0 /\ resp = NoResp
    /\ calls = <<>> /\ attempts = 0 /\ answered = "-" /\ answered_status = None
    /\ requests_issued = 0 /\ rate_limited = FALSE
    /\ MainIdle /\ UploadIdle /\ PdpIdle /\ ListingsIdle /\ UploaderIdle

\* an attempt that starts from the transport that answered last
FirstStage_Sticky(hc, last) ==
    IF last \in {"cloudscraper", "requests"} THEN last
    ELSE IF hc THEN "curl" ELSE "cloudscraper"

\* where an attempt starts: if HAVE_CURL_CFFI: try_curl_cffi, else cloudscraper;
\* the code looks at nothing an earlier attempt left behind
FirstStage(hc, last) == IF hc THEN "curl" ELSE "cloudscraper"

\* the top of the loop body:  resp = None, then the first transport
BeginAttempt ==
    /\ prog = "retry" /\ stage = "top"
    /\ ~loop.returned /\ LoopContinues(loop.attempt)
    /\ attempts' = attempts + 1
    /\ resp' = NoResp /\ calls' = <<>>
    /\ stage' = FirstStage(have_curl, answered)
    /\ persona' = IF stage' = "curl" THEN 1 ELSE 0
    /\ UNCHANGED <<prog, pc, notRetry, fn, have_curl, loop, answered,
                   answered_status, requests_issued, rate_limited>>

\* try_curl_cffi: one curl_requests.get per persona until one returns
TryCurlPersona ==
    /\ prog = "retry" /\ stage = "curl"
    /\ \E o \in {Raised} \cup RespsOf(fn) :
          /\ calls' = Append(calls, Call(Personas[persona], o))
          /\ IF Answers(o)
             THEN /\ resp' = o /\ stage' = "handle" /\ persona' = 0
                  /\ answered' = Personas[persona]
                  /\ answered_status' = o.status
             ELSE /\ resp' = NoResp /\ answered' = answered
                  /\ answered_status' = answered_status
                  /\ IF persona < Len(Personas)
                     THEN stage' = "curl" /\ persona' = persona + 1
                     ELSE stage' = "cloudscraper" /\ persona' = 0
    /\ requests_issued' = requests_issued + 1
    /\ UNCHANGED <<prog, pc, notRetry, fn, have_curl, loop, attempts, rate_limited>>

\* try_cloudscraper; the JSON loops go on to plain requests when it raised
TryCloudscraper ==
    /\ prog = "retry" /\ stage = "cloudscraper"
    /\ \E o \in {Raised} \cup RespsOf(fn) :
          /\ calls' = Append(calls, Call("cloudscraper", o))
          /\ IF Answers(o)
             THEN /\ resp' = o /\ stage' = "handle" /\ answered' = "cloudscraper"
                  /\ answered_status' = o.status
             ELSE /\ resp' = NoResp /\ answered' = answered
                  /\ answered_status' = answered_status
                  /\ stage' = IF fn \in JsonLoops THEN "requests" ELSE "handle"
    /\ requests_issued' = requests_issued + 1
    /\ UNCHANGED <<prog, pc, notRetry, fn, have_curl, loop, persona, attempts,
                   rate_limited>>

\* requests.Session().get, the final fallback of the JSON loops
TryRequests ==
    /\ prog = "retry" /\ stage = "requests"
    /\ \E o \in {Raised} \cup RespsOf(fn) :
          /\ calls' = Append(calls, Call("requests", o))
          /\ resp' = IF Answers(o) THEN o ELSE NoResp
          /\ answered' = IF Answers(o) THEN "requests" ELSE answered
          /\ answered_status' = IF Answers(o) THEN o.status ELSE answered_status
    /\ stage' = "handle"
    /\ requests_issued' = requests_issued + 1
    /\ UNCHANGED <<prog, pc, notRetry, fn, have_curl, loop, persona, attempts,
                   rate_limited>>

\* the status checks, the parse, the backoff sleep or the return
FinishAttempt ==
    /\ prog = "retry" /\ stage = "handle"
    /\ loop' = HandleResponse(fn, loop, resp)
    /\ rate_limited' = (rate_limited \/ resp.status = "429")
    /\ stage' = "top"
    /\ UNCHANGED <<prog, pc, notRetry, fn, have_curl, persona, resp, calls, attempts,
                   answered, answered_status, requests_issued>>

\* the code after the loop: all attempts failed
GiveUp ==
    /\ prog = "retry" /\ stage = "top"
    /\ ~loop.returned /\ ~LoopContinues(loop.attempt)
    /\ loop' = Exhausted(fn, loop)
    /\ UNCHANGED <<prog, pc, notRetry, fn, have_curl, stage, persona, resp, calls,
                   attempts, answered, answered_status, requests_issued,
                   rate_limited>>

NextRetry ==
    \/ BeginAttempt
    \/ TryCurlPersona
    \/ TryCloudscraper
    \/ TryRequests
    \/ FinishAttempt
    \/ GiveUp

SpecRetry == InitRetry /\ [][NextRetry]_vars

----------------------------------------------------------------------------
(* GoatFacts.main, step by step *)

ReadCsv(raw) == [i \in 1..Len(raw) |-> ReadCsvCell(raw[i])]

AllFalse(n) == [i \in 1..n |-> FALSE]

\* OUTPUT_CSV as an earlier, complete run over the same input left it, every
\* fetch of that run having succeeded
PriorOutput(raw) ==
    LET d == ReadCsv(raw)
        urls == UniqueUrls(d, 1, {}, <<>>)
        rmap == [u \in Range(urls) |-> SuccessRecord("200", "full")]
        fl == IF urls = <<>>
              THEN [flags |-> AllFalse(Len(d)), rmap |-> rmap, file |-> NoFile,
                    hw |-> FALSE]
              ELSE AppendResolved(d, AllFalse(Len(d)), rmap, NoFile, FALSE, 1)
    IN  FinalSweepOf(d, fl.flags, fl.rmap, fl.file, fl.hw).file

Init ==
    /\ prog = "GoatFacts" /\ pc = "start"
    /\ cfg \in {"ok", "no_input", "no_url_col"}
    /\ csv_in \in UNION {[1..n -> RawCells] : n \in 0..MaxRows}
    /\ cfg # "ok" => csv_in = <<>>
    /\ out_file \in {NoFile, PriorOutput(IF cfg = "ok" THEN csv_in ELSE <<<<"a">>>>)}
    /\ prior = out_file
    /\ df = <<>> /\ unique_urls = <<>> /\ results_map = <<>>
    /\ written_flags = <<>> /\ header_written = FALSE /\ batch_start = 0
    /\ fut = <<>> /\ submitted = <<>> /\ flushes = 0 /\ completed = <<>>
    /\ RetryIdle /\ UploadIdle /\ PdpIdle /\ ListingsIdle /\ UploaderIdle

\* if os.path.exists(OUTPUT_CSV): os.remove(OUTPUT_CSV)
RemoveIfExists(file) == NoFile

\* main up to the thread pool: the two configuration checks, the
\* deduplication, the fresh results_map and written_flags, the removal of an
\* old output file
LoadInput ==
    /\ prog = "GoatFacts" /\ pc = "start"
    /\ IF cfg # "ok"
       THEN /\ pc' = "exit"
            /\ UNCHANGED <<df, unique_urls, results_map, written_flags, out_file,
                           header_written, batch_start, submitted>>
       ELSE LET d == ReadCsv(csv_in)
                urls == UniqueUrls(d, 1, {}, <<>>)
            IN  /\ df' = d
                /\ unique_urls' = urls
                /\ results_map' = <<>>
                /\ written_flags' = AllFalse(Len(d))
                /\ out_file' = RemoveIfExists(out_file)
                /\ header_written' = FALSE
                /\ batch_start' = 0
                /\ submitted' = [u \in Range(urls) |-> 0]
                /\ pc' = "batch"
    /\ UNCHANGED <<prog, csv_in, cfg, prior, fut, flushes, completed,
                   notMain>>

total_unique == Len(unique_urls)
\* a slice that runs one item into the next batch
batch_end_OneMore ==
    IF batch_start + BATCH_SAVE_SIZE + 1 < total_unique
    THEN batch_start + BATCH_SAVE_SIZE + 1 ELSE total_unique

batch_end == IF batch_start + BATCH_SAVE_SIZE < total_unique
             THEN batch_start + BATCH_SAVE_SIZE ELSE total_unique
\* the positions in unique_urls of batch_urls
BatchIdx == (batch_start + 1)..batch_end

\* future_to_url = {executor.submit(fetch_once, u): u for u in batch_urls}
SubmitBatch ==
    /\ prog = "GoatFacts" /\ pc = "batch"
    /\ batch_start < total_unique
    /\ fut' = [u \in DOMAIN fut \cup {unique_urls[i] : i \in BatchIdx} |->
                 IF \E i \in BatchIdx : unique_urls[i] = u
                 THEN [st |-> "queued", out |-> NoOutcome] ELSE fut[u]]
    /\ submitted' = [u \in DOMAIN submitted |->
                       submitted[u] + Cardinality({i \in BatchIdx : unique_urls[i] = u})]
    /\ completed' = <<>>
    /\ pc' = "collect"
    /\ UNCHANGED <<prog, csv_in, cfg, out_file, prior, df, unique_urls, results_map,
                   written_flags, header_written, batch_start, flushes, notMain>>

Running == {u \in DOMAIN fut : fut[u].st = "running"}

\* the executor's work queue is first in, first out
NextQueued(i) ==
    /\ i \in BatchIdx
    /\ fut[unique_urls[i]].st = "queued"
    /\ \A j \in BatchIdx : j < i => fut[unique_urls[j]].st # "queued"

\* a pool thread is free to take a work item
WorkerFree == Cardinality(Running) < MAX_WORKERS

\* a thread of the pool takes the next queued call of fetch_once
WorkerStart ==
    /\ prog = "GoatFacts"
    /\ WorkerFree
    /\ \E i \in 1..Len(unique_urls) :
          /\ unique_urls[i] \in DOMAIN fut
          /\ NextQueued(i)
          /\ fut' = [fut EXCEPT ![unique_urls[i]].st = "running"]
    /\ UNCHANGED <<prog, pc, csv_in, cfg, out_file, prior, df, unique_urls, results_map,
                   written_flags, header_written, batch_start, submitted, flushes,
                   completed,
                   notMain>>

\* the call of fetch_once returns its dict, or raises
WorkerFinish ==
    /\ prog = "GoatFacts"
    /\ \E u \in Running, o \in FetchOutcomes :
          fut' = [fut EXCEPT ![u] = [st |-> "done", out |-> o]]
    /\ UNCHANGED <<prog, pc, csv_in, cfg, out_file, prior, df, unique_urls, results_map,
                   written_flags, header_written, batch_start, submitted, flushes,
                   completed,
                   notMain>>

\* a collect loop without its except clause
Caught_Never(o) == FALSE

\* except Exception as exc:  whatever fut.result() raises is caught
Caught(o) == TRUE

\* res = fut.result(), or the exception dict
ResultOf(o) == IF o.raised THEN ExceptionRecord ELSE o.value

\* the result stored under every key seen so far, not under its own URL only
Store_UnderEveryKey(rmap, url, res) == [k \in DOMAIN rmap \cup {url} |-> res]

\* results_map[url] = res
Store(rmap, url, res) ==
    [k \in DOMAIN rmap \cup {url} |-> IF k = url THEN res ELSE rmap[k]]

\* one iteration of  for fut in as_completed(future_to_url)
Collect ==
    /\ prog = "GoatFacts" /\ pc = "collect"
    /\ \E u \in DOMAIN fut :
          /\ fut[u].st = "done"
          /\ IF fut[u].out.raised /\ ~Caught(fut[u].out)
             THEN pc' = "crashed" /\ UNCHANGED <<results_map, fut, completed>>
             ELSE /\ results_map' = Store(results_map, u, ResultOf(fut[u].out))
                  /\ fut' = [fut EXCEPT ![u].st = "collected"]
                  /\ completed' = Append(completed, u)
                  /\ pc' = pc
    /\ UNCHANGED <<prog, csv_in, cfg, out_file, prior, df, unique_urls,
                   written_flags, header_written, batch_start, submitted, flushes,
                   notMain>>

BatchCollected_Any == \E i \in BatchIdx : fut[unique_urls[i]].st = "collected"

\* as_completed has yielded every future of the batch
BatchCollected == \A i \in BatchIdx : fut[unique_urls[i]].st = "collected"

\* append_resolved_rows_to_output() after the batch, then on to the next batch
FlushBatch ==
    /\ prog = "GoatFacts" /\ pc = "collect"
    /\ BatchCollected
    /\ LET a == AppendResolved(df, written_flags, results_map, out_file,
                               header_written, flushes + 1)
       IN  /\ written_flags' = a.flags
           /\ results_map' = a.rmap
           /\ out_file' = a.file
           /\ header_written' = a.hw
    /\ flushes' = flushes + 1
    /\ batch_start' = batch_start + BATCH_SAVE_SIZE
    /\ pc' = "batch"
    /\ UNCHANGED <<prog, csv_in, cfg, prior, df, unique_urls, fut, submitted, completed,
                   notMain>>

\* the code after the batch loop: the final sweep over written_flags
FinalSweep ==
    /\ prog = "GoatFacts" /\ pc = "batch"
    /\ ~(batch_start < total_unique)
    /\ LET w == FinalSweepOf(df, written_flags, results_map, out_file, header_written)
       IN  /\ written_flags' = w.flags
           /\ out_file' = w.file
           /\ header_written' = w.hw
    /\ pc' = "done"
    /\ UNCHANGED <<prog, csv_in, cfg, prior, df, unique_urls, results_map, batch_start,
                   fut, submitted, flushes, completed,
                   notMain>>

Next ==
    \/ LoadInput
    \/ SubmitBatch
    \/ WorkerStart
    \/ WorkerFinish
    \/ Collect
    \/ FlushBatch
    \/ FinalSweep

Spec == Init /\ [][Next]_vars

\* SIGINT while main runs: KeyboardInterrupt is no Exception, so the except
\* clause of the collect loop lets it through and it leaves the with block,
\* whose exit (executor.shutdown(wait=True)) lets the pool finish the calls
\* of fetch_once it was given; nothing is stored, flushed or swept after it
KeyboardInterrupt ==
    /\ prog = "GoatFacts" /\ pc \in {"batch", "collect"}
    /\ pc' = "interrupted"
    /\ UNCHANGED <<prog, mainVars, notMain>>

NextInterrupt == Next \/ KeyboardInterrupt

SpecInterrupt == Init /\ [][NextInterrupt]_vars

----------------------------------------------------------------------------
(* upload_goat_images.py: resume, batches of coroutines, the CSV after each *)

\* an Optional[str] value of product_id_to_drive_url
NoneUrl == [none |-> TRUE, text |-> <<>>]
Url(t) == [none |-> FALSE, text |-> t]
\* truth value of an Optional[str]
Valid(v) == ~v.none /\ v.text # <<>>

\* the (Product ID, Picture URL) cells a row of INPUT_CSV may hold
UploadRows ==
    {[pid |-> <<"p">>, pic |-> <<"u">>], [pid |-> <<"p", " ">>, pic |-> <<"u">>],
     [pid |-> <<"q">>, pic |-> <<"u">>], [pid |-> <<"r">>, pic |-> <<"u">>],
     [pid |-> <<"q">>, pic |-> <<"N/A">>], [pid |-> <<>>, pic |-> <<"u">>]}

NoPrev == [exists |-> FALSE, rows |-> <<>>]

\* if product_id and picture_url and picture_url != "N/A"
\*    and product_id not in seen_product_ids
Processable(product_id, picture_url, seen) ==
    /\ product_id # <<>> /\ picture_url # <<>> /\ picture_url # <<"N/A">>
    /\ product_id \notin seen

\* the loop that fills products_to_process
RECURSIVE ProductsToProcess(_, _, _, _)
ProductsToProcess(rows, i, seen, acc) ==
    IF i > Len(rows) THEN acc
    ELSE LET product_id == Strip(rows[i].pid)
             picture_url == Strip(rows[i].pic)
         IN  IF Processable(product_id, picture_url, seen)
             THEN ProductsToProcess(rows, i + 1, seen \cup {product_id},
                                    Append(acc, <<product_id, picture_url>>))
             ELSE ProductsToProcess(rows, i + 1, seen, acc)

\* the resume block: product_id_to_drive_url read from the earlier output
RECURSIVE ResumeUrls(_, _, _)
ResumeUrls(rows, i, m) ==
    IF i > Len(rows) THEN m
    ELSE LET pid == Strip(rows[i].pid)
             drive_url == Strip(rows[i].drive_url)
         IN  IF pid # <<>> /\ drive_url # <<>>
             THEN ResumeUrls(rows, i + 1,
                             [k \in DOMAIN m \cup {pid} |->
                                 IF k = pid THEN Url(drive_url) ELSE m[k]])
             ELSE ResumeUrls(rows, i + 1, m)

\* the resume block: product_id_to_dimensions read from the earlier output
RECURSIVE ResumeDimensions(_, _, _)
ResumeDimensions(rows, i, m) ==
    IF i > Len(rows) THEN m
    ELSE LET pid == Strip(rows[i].pid)
             size == Strip(rows[i].size)
         IN  IF pid # <<>> /\ size # <<>>
             THEN ResumeDimensions(rows, i + 1,
                                   [k \in DOMAIN m \cup {pid} |->
                                       IF k = pid THEN size ELSE m[k]])
             ELSE ResumeDimensions(rows, i + 1, m)

\* df[DRIVE_URL_COL] = df[PRODUCT_ID_COL].map(product_id_to_drive_url), the two
\* size columns likewise, then df.to_csv: None and a missing key give an empty field
ToCsv(rows, urls, dims) ==
    [exists |-> TRUE,
     rows |-> [i \in 1..Len(rows) |->
        [pid |-> rows[i].pid, pic |-> rows[i].pic,
         drive_url |-> IF rows[i].pid \in DOMAIN urls /\ Valid(urls[rows[i].pid])
                       THEN urls[rows[i].pid].text ELSE <<>>,
         size |-> IF rows[i].pid \in DOMAIN dims THEN dims[rows[i].pid] ELSE <<>>]]]

\* OUTPUT_CSV as an earlier run left it when the products done held the Drive
\* URL "old"
PrevOutput(rows, done) ==
    ToCsv(rows, [k \in done |-> Url(<<"old">>)], [k \in done |-> <<"700">>])

ProductIds(rows) ==
    {ProductsToProcess(rows, 1, {}, <<>>)[i][1] :
        i \in 1..Len(ProductsToProcess(rows, 1, {}, <<>>))}

InitUpload ==
    /\ prog = "upload_goat_images" /\ pc = "load"
    /\ listings \in UNION {[1..n -> UploadRows] : n \in 0..MaxRows}
    /\ prev \in {NoPrev} \cup {PrevOutput(listings, d) : d \in SUBSET ProductIds(listings)}
    /\ up_csv = prev
    /\ product_id_to_drive_url = <<>> /\ product_id_to_dimensions = <<>>
    /\ products_to_process = <<>> /\ processed = 0 /\ tasks = <<>>
    /\ started = <<>> /\ saves = 0
    /\ MainIdle /\ RetryIdle /\ PdpIdle /\ ListingsIdle /\ UploaderIdle

\* the module body up to asyncio.run, and the head of process_all_in_batches
LoadAndResume ==
    /\ prog = "upload_goat_images" /\ pc = "load"
    /\ product_id_to_drive_url' =
          IF prev.exists THEN ResumeUrls(prev.rows, 1, <<>>) ELSE <<>>
    /\ product_id_to_dimensions' =
          IF prev.exists THEN ResumeDimensions(prev.rows, 1, <<>>) ELSE <<>>
    /\ products_to_process' = ProductsToProcess(listings, 1, {}, <<>>)
    /\ started' = [k \in ProductIds(listings) |-> 0]
    /\ processed' = 0
    /\ pc' = "batch"
    /\ UNCHANGED <<prog, listings, prev, up_csv, tasks, saves, notUpload>>

\* _chunks(products_to_process, batch_size), the chunk the loop is at
BatchRange ==
    (processed + 1)..(IF processed + BATCH_SIZE < Len(products_to_process)
                      THEN processed + BATCH_SIZE ELSE Len(products_to_process))

AlreadyUploaded_Never(m, product_id) == FALSE

\* product_id in product_id_to_drive_url and product_id_to_drive_url[product_id]
AlreadyUploaded(m, product_id) == product_id \in DOMAIN m /\ Valid(m[product_id])

NoTask == [st |-> "created", url |-> NoneUrl, size |-> <<>>]

\* the head of the batch loop: one coroutine per product not yet uploaded
CreateTasks ==
    /\ prog = "upload_goat_images" /\ pc = "batch"
    /\ processed < Len(products_to_process)
    /\ tasks' = [k \in {products_to_process[i][1] : i \in
                          {j \in BatchRange :
                             ~AlreadyUploaded(product_id_to_drive_url,
                                              products_to_process[j][1])}} |-> NoTask]
    /\ pc' = "gather"
    /\ UNCHANGED <<prog, listings, prev, up_csv, product_id_to_drive_url,
                   product_id_to_dimensions, products_to_process, processed, started,
                   saves, notUpload>>

InSemaphore == {k \in DOMAIN tasks : tasks[k].st = "working"}

\* asyncio.Semaphore wakes its waiters in the order they arrived
NextWaiting(j) ==
    /\ j \in BatchRange
    /\ products_to_process[j][1] \in DOMAIN tasks
    /\ tasks[products_to_process[j][1]].st = "created"
    /\ \A i \in BatchRange :
          (i < j /\ products_to_process[i][1] \in DOMAIN tasks)
              => tasks[products_to_process[i][1]].st # "created"

\* a semaphore that lets every coroutine in
SemaphoreFree_Always == TRUE

\* async with sema
SemaphoreFree == Cardinality(InSemaphore) < CONCURRENCY

\* _process_one_product up to its first await: the semaphore, the second check
\* for a Drive URL, the start of download_image
TaskEnter ==
    /\ prog = "upload_goat_images" /\ pc = "gather"
    /\ SemaphoreFree
    /\ \E j \in 1..Len(products_to_process) :
          LET k == products_to_process[j][1] IN
          /\ NextWaiting(j)
          /\ IF AlreadyUploaded(product_id_to_drive_url, k)
             THEN /\ tasks' = [tasks EXCEPT ![k] =
                                  [st |-> "done", url |-> product_id_to_drive_url[k],
                                   size |-> IF k \in DOMAIN product_id_to_dimensions
                                            THEN product_id_to_dimensions[k] ELSE <<>>]]
                  /\ started' = started
             ELSE /\ tasks' = [tasks EXCEPT ![k].st = "working"]
                  /\ started' = [started EXCEPT ![k] = @ + 1]
    /\ UNCHANGED <<prog, pc, listings, prev, up_csv, product_id_to_drive_url,
                   product_id_to_dimensions, products_to_process, processed, saves,
                   notUpload>>

\* how the download, the resize and the upload of one product may end
TaskEndings == {"download failed", "resize failed", "upload failed", "uploaded"}

SetKey(m, k, v) == [x \in DOMAIN m \cup {k} |-> IF x = k THEN v ELSE m[x]]

\* the rest of _process_one_product: it records None, or the new Drive URL and
\* the size, in the two dicts and returns
TaskFinish ==
    /\ prog = "upload_goat_images" /\ pc = "gather"
    /\ \E k \in InSemaphore, e \in TaskEndings :
          LET drive_url == IF e = "uploaded" THEN Url(<<"new">>) ELSE NoneUrl
              size == IF e = "uploaded" THEN <<"700">> ELSE <<>>
          IN  /\ product_id_to_drive_url' = SetKey(product_id_to_drive_url, k, drive_url)
              /\ product_id_to_dimensions' =
                    IF size # <<>> THEN SetKey(product_id_to_dimensions, k, size)
                    ELSE product_id_to_dimensions
              /\ tasks' = [tasks EXCEPT ![k] =
                             [st |-> "done", url |-> drive_url, size |-> size]]
    /\ UNCHANGED <<prog, pc, listings, prev, up_csv, products_to_process, processed,
                   started, saves, notUpload>>

\* await asyncio.gather(*tasks) has every result
Gathered == \A k \in DOMAIN tasks : tasks[k].st = "done"

\* for product_id, drive_url, dimensions in results: ...
RECURSIVE FoldResults(_, _, _)
FoldResults(ks, urls, dims) ==
    IF ks = {} THEN [urls |-> urls, dims |-> dims]
    ELSE LET k == CHOOSE x \in ks : TRUE IN
         FoldResults(ks \ {k}, SetKey(urls, k, tasks[k].url),
                     IF tasks[k].size # <<>> THEN SetKey(dims, k, tasks[k].size)
                     ELSE dims)

\* after the gather: the results go into the dicts, the CSV is written anew
SaveBatch ==
    /\ prog = "upload_goat_images" /\ pc = "gather"
    /\ Gathered
    /\ LET r == FoldResults(DOMAIN tasks, product_id_to_drive_url,
                            product_id_to_dimensions)
       IN  /\ product_id_to_drive_url' = r.urls
           /\ product_id_to_dimensions' = r.dims
           /\ up_csv' = ToCsv(listings, r.urls, r.dims)
    /\ saves' = saves + 1
    /\ processed' = processed + Cardinality(BatchRange)
    /\ tasks' = <<>>
    /\ pc' = "batch"
    /\ UNCHANGED <<prog, listings, prev, products_to_process, started, notUpload>>

\* the batch loop is through
AllBatchesDone ==
    /\ prog = "upload_goat_images" /\ pc = "batch"
    /\ ~(processed < Len(products_to_process))
    /\ pc' = "done"
    /\ UNCHANGED <<prog, listings, prev, up_csv, product_id_to_drive_url,
                   product_id_to_dimensions, products_to_process, processed, tasks,
                   started, saves, notUpload>>

NextUpload ==
    \/ LoadAndResume
    \/ CreateTasks
    \/ TaskEnter
    \/ TaskFinish
    \/ SaveBatch
    \/ AllBatchesDone

SpecUpload == InitUpload /\ [][NextUpload]_vars

(* goatPDPAPI.scrape_all_products: batches of products, rows appended *)

\* the Product IDs a row of INPUT_CSV may hold
ProductIdCells == {"p", "q"}

\* the responses the two fetches of a product may get on an attempt
PageCases == {NoResp, [status |-> "200", body |-> "full"]}
ApiCases ==
    {NoResp, [status |-> "200", body |-> "variants"],
     [status |-> "200", body |-> "object"]}

\* every dict a call of fetch_product_page_html may return
PageResults ==
    {RunLoop("fetch_product_page_html", NewLoop, rs).value :
        rs \in [1..MAX_RETRIES -> PageCases]}

\* everything a call of fetch_product_data may return: the parsed JSON, or None
ApiResults ==
    {RunLoop("fetch_product_data", NewLoop, rs).value :
        rs \in [1..MAX_RETRIES -> ApiCases]}

\* what the future of fetch_product_complete holds: (product_info, html_data,
\* api_data), or the exception one of the two inner futures raised
NoComplete == [raised |-> FALSE, html_data |-> NoRecord, api_data |-> None]
CompleteOutcomes ==
    {[raised |-> FALSE, html_data |-> h, api_data |-> a] :
        h \in PageResults, a \in ApiResults}
        \cup {[raised |-> TRUE, html_data |-> NoRecord, api_data |-> None]}

\* read_product_listings: the rows of INPUT_CSV, or [] when reading raised
read_product_listings(file) == IF file.readable THEN file.rows ELSE <<>>

\* if api_data:
ApiTruthy(a) == a # None /\ a # "empty_list"

\* parse_variants_data: one row per variant of a JSON list, the fields of
\* html_data at its end; no row for anything that is not a list
parse_variants_data(variants_data, i, product_id, html_data) ==
    IF variants_data = "variants"
    THEN <<[product |-> i, product_id |-> product_id,
            story_html |-> html_data.story_html, http_status |-> html_data.http_status,
            error |-> html_data.error]>>
    ELSE <<>>

\* append_rows_to_csv([header], OUTPUT_CSV, write_header=True): mode 'w'
WriteHeader(file) == [exists |-> TRUE, headers |-> 1, rows |-> <<>>]

\* append_rows_to_csv(rows, OUTPUT_CSV, write_header=False): mode 'a'
append_rows_to_csv(file, rows) ==
    [exists |-> TRUE, headers |-> file.headers, rows |-> file.rows \o rows]

\* OUTPUT_CSV as an earlier run over the same input left it
PriorPdpOutput(rows) ==
    [exists |-> TRUE, headers |-> 1,
     rows |-> [i \in 1..Len(rows) |->
                 [product |-> i, product_id |-> rows[i],
                  story_html |-> "<p>story</p>", http_status |-> "200",
                  error |-> NoError]]]

InitPdp ==
    /\ prog = "goatPDPAPI" /\ pc = "start"
    /\ listing_csv \in
          {[readable |-> FALSE, rows |-> <<>>]} \cup
          {[readable |-> TRUE, rows |-> r] :
              r \in UNION {[1..n -> ProductIdCells] : n \in 0..MaxRows}}
    /\ pdp_csv \in {NoFile, PriorPdpOutput(listing_csv.rows)}
    /\ products = <<>> /\ products_start = 0 /\ future_to_product = <<>>
    /\ batch_rows = <<>> /\ fate = <<>>
    /\ MainIdle /\ RetryIdle /\ UploadIdle /\ ListingsIdle /\ UploaderIdle

\* the head of scrape_all_products: the products are read, the header is written
ReadListings ==
    /\ prog = "goatPDPAPI" /\ pc = "start"
    /\ products' = read_product_listings(listing_csv)
    /\ IF products' = <<>>
       THEN pc' = "exit" /\ UNCHANGED <<pdp_csv, fate>>
       ELSE /\ pdp_csv' = WriteHeader(pdp_csv)
            /\ fate' = [i \in 1..Len(products') |-> "-"]
            /\ pc' = "batch"
    /\ products_start' = 0
    /\ UNCHANGED <<prog, listing_csv, future_to_product, batch_rows, notPdp>>

total_products == Len(products)
products_end == IF products_start + PDP_BATCH_SIZE < total_products
                THEN products_start + PDP_BATCH_SIZE ELSE total_products
\* the positions in products of batch_products
ProductIdx == (products_start + 1)..products_end

\* future_to_product = {executor.submit(fetch_product_complete, product): ...}
SubmitProducts ==
    /\ prog = "goatPDPAPI" /\ pc = "batch"
    /\ products_start < total_products
    /\ future_to_product' = [i \in ProductIdx |-> [st |-> "queued", out |-> NoComplete]]
    /\ batch_rows' = <<>>
    /\ pc' = "collect"
    /\ UNCHANGED <<prog, listing_csv, products, pdp_csv, products_start, fate, notPdp>>

\* the calls of fetch_product_complete a pool thread is in: "running" while both
\* of its fetches are out, "html_done" and "api_done" once one of them is back
ProductsRunning ==
    {i \in DOMAIN future_to_product :
        future_to_product[i].st \in {"running", "html_done", "api_done"}}

\* the calls of fetch_product_page_html and of fetch_product_data under way
HtmlInFlight ==
    {i \in DOMAIN future_to_product : future_to_product[i].st \in {"running", "api_done"}}
ApiInFlight ==
    {i \in DOMAIN future_to_product : future_to_product[i].st \in {"running", "html_done"}}

\* a pool that starts every call it is given at once
ProductWorkerFree_Always == TRUE

\* a thread of ThreadPoolExecutor(max_workers=MAX_WORKERS) is free
ProductWorkerFree == Cardinality(ProductsRunning) < PDP_MAX_WORKERS

\* a thread of the pool takes the next queued call of fetch_product_complete,
\* which hands its two fetches to the two threads of a pool of its own
ProductWorkerStart ==
    /\ prog = "goatPDPAPI"
    /\ ProductWorkerFree
    /\ \E i \in DOMAIN future_to_product :
          /\ future_to_product[i].st = "queued"
          /\ \A j \in DOMAIN future_to_product :
                j < i => future_to_product[j].st # "queued"
          /\ future_to_product' = [future_to_product EXCEPT ![i].st = "running"]
    /\ UNCHANGED <<prog, pc, listing_csv, products, pdp_csv, products_start,
                   batch_rows, fate, notPdp>>

\* the first of the two fetches of a call of fetch_product_complete is back
InnerFetchReturns ==
    /\ prog = "goatPDPAPI"
    /\ \E i \in DOMAIN future_to_product, s \in {"html_done", "api_done"} :
          /\ future_to_product[i].st = "running"
          /\ future_to_product' = [future_to_product EXCEPT ![i].st = s]
    /\ UNCHANGED <<prog, pc, listing_csv, products, pdp_csv, products_start,
                   batch_rows, fate, notPdp>>

\* the other fetch is back, the inner pool is shut down and
\* fetch_product_complete returns its tuple, or raises
ProductWorkerFinish ==
    /\ prog = "goatPDPAPI"
    /\ \E i \in ProductsRunning \ {j \in DOMAIN future_to_product :
                                       future_to_product[j].st = "running"},
          o \in CompleteOutcomes :
          future_to_product' = [future_to_product EXCEPT ![i] =
                                   [st |-> "done", out |-> o]]
    /\ UNCHANGED <<prog, pc, listing_csv, products, pdp_csv, products_start,
                   batch_rows, fate, notPdp>>

\* the body of  for fut in as_completed(future_to_product)  for one outcome:
\* the rows it adds to batch_rows and the branch it took
CollectOf(i, o) ==
    IF o.raised THEN [rows |-> <<>>, fate |-> "exception"]
    ELSE IF ~ApiTruthy(o.api_data) THEN [rows |-> <<>>, fate |-> "no api data"]
    ELSE LET variant_rows == parse_variants_data(o.api_data, i, products[i], o.html_data)
         IN  IF variant_rows # <<>> THEN [rows |-> variant_rows, fate |-> "rows"]
             ELSE [rows |-> <<>>, fate |-> "no variants"]

\* one iteration of  for fut in as_completed(future_to_product)
CollectProduct ==
    /\ prog = "goatPDPAPI" /\ pc = "collect"
    /\ \E i \in DOMAIN future_to_product :
          /\ future_to_product[i].st = "done"
          /\ LET c == CollectOf(i, future_to_product[i].out) IN
             /\ batch_rows' = batch_rows \o c.rows
             /\ fate' = [fate EXCEPT ![i] = c.fate]
          /\ future_to_product' = [future_to_product EXCEPT ![i] =
                                      [st |-> "collected", out |-> NoComplete]]
    /\ UNCHANGED <<prog, pc, listing_csv, products, pdp_csv, products_start, notPdp>>

\* as_completed has yielded every future of the batch
ProductsCollected ==
    \A i \in DOMAIN future_to_product : future_to_product[i].st = "collected"

\* if batch_rows: append_rows_to_csv(batch_rows, ...), then on to the next batch
AppendBatch ==
    /\ prog = "goatPDPAPI" /\ pc = "collect"
    /\ ProductsCollected
    /\ pdp_csv' = IF batch_rows # <<>> THEN append_rows_to_csv(pdp_csv, batch_rows)
                  ELSE pdp_csv
    /\ products_start' = products_start + PDP_BATCH_SIZE
    /\ future_to_product' = <<>>
    /\ batch_rows' = <<>>
    /\ pc' = "batch"
    /\ UNCHANGED <<prog, listing_csv, products, fate, notPdp>>

\* the code after the batch loop: the final summary
Summary ==
    /\ prog = "goatPDPAPI" /\ pc = "batch"
    /\ ~(products_start < total_products)
    /\ pc' = "done"
    /\ UNCHANGED <<prog, pdpVars, notPdp>>

NextPdp ==
    \/ ReadListings
    \/ SubmitProducts
    \/ ProductWorkerStart
    \/ InnerFetchReturns
    \/ ProductWorkerFinish
    \/ CollectProduct
    \/ AppendBatch
    \/ Summary

SpecPdp == InitPdp /\ [][NextPdp]_vars

----------------------------------------------------------------------------
(* listingsAPI.scrape_all_pages: page after page of every search URL *)

\* SEARCH_URLS holds two URLs
NumSearchUrls == 2

\* product.get('id') of a product of a page: an id, or None when it has none
OnlineIds == {"x", "y"}

\* what fetch_json_page may return for a page: None, a dict without products,
\* or a dict with its productsList (the ids) and its pageLimit (12 when the
\* dict names none)
PageResponses ==
    {[kind |-> "none", productsList |-> <<>>, pageLimit |-> 12],
     [kind |-> "no_products", productsList |-> <<>>, pageLimit |-> 12]}
        \cup {[kind |-> "page", productsList |-> l, pageLimit |-> m] :
                 l \in UNION {[1..n -> OnlineIds \cup {None}] : n \in 1..MaxPageLen},
                 m \in {MaxPageLen, 12}}

\* a loop that keeps the products written before
RECURSIVE NewProducts_SeenKept(_, _, _, _)
NewProducts_SeenKept(page_products, i, written, acc) ==
    IF i > Len(page_products) THEN acc
    ELSE LET product_id == page_products[i] IN
         IF product_id = None
         THEN NewProducts_SeenKept(page_products, i + 1, written, acc)
         ELSE NewProducts_SeenKept(page_products, i + 1, written,
                                   Append(acc, product_id))

\* the loop that fills new_products: written_product_ids is not updated in it
RECURSIVE NewProducts(_, _, _, _)
NewProducts(page_products, i, written, acc) ==
    IF i > Len(page_products) THEN acc
    ELSE LET product_id == page_products[i] IN
         IF product_id = None \/ product_id \in written
         THEN NewProducts(page_products, i + 1, written, acc)
         ELSE NewProducts(page_products, i + 1, written, Append(acc, product_id))

\* a writer that opens the file with 'w' every time
SaveMode_AlwaysW(wh) == "w"

\* mode='w' for the first save of the run, append_to_csv (mode='a') after it
SaveMode(wh) == IF wh THEN "a" ELSE "w"

\* save_to_csv(data, filename, mode): 'w' truncates and writes the header row
save_to_csv(file, new_rows, mode) ==
    IF mode = "w"
    THEN [exists |-> TRUE, headers |-> 1, rows |-> new_rows]
    ELSE [file EXCEPT !.exists = TRUE, !.rows = @ \o new_rows]

\* goat_listings.csv as an earlier run left it
PriorListings == [exists |-> TRUE, headers |-> 1, rows |-> <<"x">>]

InitListings ==
    /\ prog = "listingsAPI" /\ pc = "start"
    /\ goat_listings \in {NoFile, PriorListings}
    /\ base_url = 0 /\ page_number = 0 /\ wrote_header = FALSE
    /\ written_product_ids = {} /\ all_data = <<>> /\ data = NoData
    /\ MainIdle /\ RetryIdle /\ UploadIdle /\ PdpIdle /\ UploaderIdle

\* the head of scrape_all_pages and of the first round of its outer loop
BeginScrape ==
    /\ prog = "listingsAPI" /\ pc = "start"
    /\ all_data' = <<>> /\ wrote_header' = FALSE /\ written_product_ids' = {}
    /\ base_url' = 1 /\ page_number' = 1
    /\ pc' = "page"
    /\ UNCHANGED <<prog, goat_listings, data, notListings>>

\* break: on to the next search URL, or out of the outer loop
NextSilhouette ==
    IF base_url < NumSearchUrls
    THEN base_url' = base_url + 1 /\ page_number' = 1 /\ pc' = "page"
    ELSE base_url' = base_url /\ page_number' = page_number /\ pc' = "done"

\* one round of  while True:  fetch the page, keep its new products, write
\* them, go on to the next page or break
ScrapePage ==
    /\ prog = "listingsAPI" /\ pc = "page"
    /\ data' \in PageResponses
    /\ LET new_products ==
                NewProducts(data'.productsList, 1, written_product_ids, <<>>)
       IN  IF data'.kind # "page" \/ new_products = <<>>
           THEN /\ NextSilhouette
                /\ UNCHANGED <<goat_listings, wrote_header, written_product_ids,
                               all_data>>
           ELSE /\ all_data' = all_data \o new_products
                /\ goat_listings' =
                      save_to_csv(goat_listings, new_products, SaveMode(wrote_header))
                /\ wrote_header' = TRUE
                /\ written_product_ids' = written_product_ids \cup Range(new_products)
                /\ IF Len(data'.productsList) < data'.pageLimit
                   THEN NextSilhouette
                   ELSE /\ page_number' = page_number + 1
                        /\ UNCHANGED <<base_url, pc>>
    /\ UNCHANGED <<prog, notListings>>

NextListings ==
    \/ BeginScrape
    \/ ScrapePage

SpecListings == InitListings /\ [][NextListings]_vars

\* scrape_all_pages runs in one thread that is never held up for good: every
\* call of fetch_json_page returns after at most MAX_RETRIES attempts, each
\* with a timeout
SpecListingsFair == SpecListings /\ WF_vars(NextListings)

----------------------------------------------------------------------------
(* _upload_file_blocking_with_retries (upload_goat_images.py, driveUpload.py): *)
(* one call, step by step                                                      *)

\* upload_goat_images.py:29, driveUpload.py:18
RETRY_ATTEMPTS == 3
\* upload_goat_images.py:30, driveUpload.py:19: 1.0 seconds
RETRY_BASE_DELAY == 1

UploadModules == {"upload_goat_images", "driveUpload"}

\* file_path: None or "", the path of no file, the path of a file
FilePaths == {"none", "missing", "present"}

\* the calls of the try block that may raise before the file is on Drive
UploadCalls == {"CreateFile", "SetContentFile", "Upload"}

\* a delay that grows by one base delay per failure: 1, 2, 3
UploadDelay_Linear(att) == RETRY_BASE_DELAY * att

\* delay = RETRY_BASE_DELAY * (2 ** (attempts - 1))
UploadDelay(att) == RETRY_BASE_DELAY * 2 ^ (att - 1)

\* the link the function returns: upload_goat_images takes webContentLink and,
\* when the metadata has none, alternateLink; driveUpload takes alternateLink,
\* which the metadata of every file on Drive holds
DriveLinks(m) ==
    IF m = "upload_goat_images" THEN {"webContentLink", "alternateLink"}
    ELSE {"alternateLink"}

InitUploader ==
    /\ prog = "_upload_file_blocking_with_retries" /\ pc = "call"
    /\ uploader \in {[NoUpload EXCEPT !.module = m, !.file_path = f] :
                        m \in UploadModules, f \in FilePaths}
    /\ MainIdle /\ RetryIdle /\ UploadIdle /\ PdpIdle /\ ListingsIdle

\* if not file_path or not os.path.exists(file_path): return None
\* attempts = 0
CheckFilePath ==
    /\ prog = "_upload_file_blocking_with_retries" /\ pc = "call"
    /\ pc' = IF uploader.file_path = "present" THEN "while" ELSE "returned"
    /\ UNCHANGED <<prog, uploader, notUploader>>

\* while attempts < RETRY_ATTEMPTS: the try block up to gfile.Upload(), any
\* call of which may raise
TryUpload ==
    /\ prog = "_upload_file_blocking_with_retries" /\ pc = "while"
    /\ uploader.attempts < RETRY_ATTEMPTS
    /\ \E o \in UploadCalls \cup {"uploaded"} :
          /\ uploader' = [uploader EXCEPT !.tries = Append(@, o)]
          /\ pc' = IF o = "uploaded" THEN "permission" ELSE "except"
    /\ UNCHANGED <<prog, notUploader>>

\* gfile.InsertPermission(...) in a try block of its own:  except Exception: pass
InsertPermission ==
    /\ prog = "_upload_file_blocking_with_retries" /\ pc = "permission"
    /\ \E o \in {"permission set", "permission raised"} :
          uploader' = [uploader EXCEPT !.tries = Append(@, o)]
    /\ pc' = "link"
    /\ UNCHANGED <<prog, notUploader>>

\* drive_url = gfile.get(...), os.remove(file_path) whose failure is passed
\* over (upload_goat_images only), return drive_url
ReturnLink ==
    /\ prog = "_upload_file_blocking_with_retries" /\ pc = "link"
    /\ \E l \in DriveLinks(uploader.module) :
          uploader' = [uploader EXCEPT !.value = l]
    /\ pc' = "returned"
    /\ UNCHANGED <<prog, notUploader>>

\* except Exception: attempts += 1, the delay, time.sleep(delay)
UploadFailed ==
    /\ prog = "_upload_file_blocking_with_retries" /\ pc = "except"
    /\ uploader' = [uploader EXCEPT
                       !.attempts = @ + 1,
                       !.delays = Append(@, UploadDelay(uploader.attempts + 1))]
    /\ pc' = "while"
    /\ UNCHANGED <<prog, notUploader>>

\* the loop is through: the [ERROR] line and return None
UploadGiveUp ==
    /\ prog = "_upload_file_blocking_with_retries" /\ pc = "while"
    /\ ~(uploader.attempts < RETRY_ATTEMPTS)
    /\ pc' = "returned"
    /\ UNCHANGED <<prog, uploader, notUploader>>

NextUploader ==
    \/ CheckFilePath
    \/ TryUpload
    \/ InsertPermission
    \/ ReturnLink
    \/ UploadFailed
    \/ UploadGiveUp

SpecUploader == InitUploader /\ [][NextUploader]_vars

----------------------------------------------------------------------------
\* the two programs that work in batches with a checkpoint after each
InitBatches == Init \/ InitUpload

NextBatches == Next \/ NextUpload

SpecBatches == InitBatches /\ [][NextBatches]_vars

\* the two programs that fetch pages in batches through a thread pool
InitPipelines == Init \/ InitPdp

NextPipelines == Next \/ NextPdp

SpecPipelines == InitPipelines /\ [][NextPipelines]_vars

\* the three programs that create an output CSV and append to it
InitSinks == Init \/ InitPdp \/ InitListings

NextSinks == Next \/ NextPdp \/ NextListings

SpecSinks == InitSinks /\ [][NextSinks]_vars

----------------------------------------------------------------------------
(* Claims *)

Rows == out_file.rows
RowsOf(i) == {k \in 1..Len(Rows) : Rows[k].idx = i}
Loaded == prog = "GoatFacts" /\ pc \notin {"start", "exit"}

\* C1: a retry loop begins at most MAX_RETRIES iterations, and it returns its
\* exhausted-failure value (the "Failed after" dict of the HTML loops, None of
\* the JSON loops) only when exactly MAX_RETRIES iterations were begun.
ExhaustedFailure ==
    /\ loop.returned
    /\ IF fn \in HtmlLoops THEN loop.value.error.kind = "Failed after"
                           ELSE loop.value = None
C1_RetryBound ==
    prog = "retry" =>
        /\ attempts <= MAX_RETRIES
        /\ ExhaustedFailure => attempts = MAX_RETRIES

C1_Witness ==
    /\ prog = "retry" /\ ExhaustedFailure /\ attempts = MAX_RETRIES
    /\ fn = "fetch_product_data" /\ loop.last_status = "429"

\* C2: when main ends, the output holds exactly one data row per input row,
\* and every row the final sweep wrote carries a failure placeholder.
C2_OutputComplete ==
    (prog = "GoatFacts" /\ pc = "done") =>
        /\ Len(Rows) = Len(csv_in)
        /\ \A i \in 1..Len(csv_in) : Cardinality(RowsOf(i)) = 1
        /\ \A k \in 1..Len(Rows) :
              Rows[k].by = "sweep" => Rows[k].error.kind \in {"No URL", "Not fetched"}

C2_Witness ==
    /\ prog = "GoatFacts" /\ pc = "done"
    /\ \E k \in 1..Len(Rows) : Rows[k].by = "sweep"
    /\ \E k \in 1..Len(Rows) : Rows[k].by = "flush" /\ Rows[k].error.kind = "Failed after"
    /\ Len(unique_urls) < Len(csv_in)

\* C3: no input row is appended to the output twice, and right after a flush
\* a second call of append_resolved_rows_to_output would append nothing.
C3_WrittenOnce ==
    Loaded =>
        /\ \A i \in 1..Len(df) : Cardinality(RowsOf(i)) <= 1
        /\ (pc \in {"batch", "done"} /\ flushes > 0) =>
              AppendResolved(df, written_flags, results_map, out_file,
                             header_written, flushes + 1).rows = <<>>

C3_Witness ==
    /\ prog = "GoatFacts" /\ pc = "batch" /\ flushes = 2
    /\ \E k \in 1..Len(Rows) : Rows[k].flush = 1
    /\ \E k \in 1..Len(Rows) : Rows[k].flush = 2

\* C5: unique_urls is the list of the distinct non-empty stripped URL texts of
\* the input in order of first occurrence; fetch_once is never submitted twice
\* for a URL, and by the end of the run exactly once for each of them.
InputKeys == {Strip(csv_in[i]) : i \in 1..Len(csv_in)} \ {<<>>}
FirstOccurrence(k) ==
    CHOOSE i \in 1..Len(csv_in) :
        Strip(csv_in[i]) = k /\ \A j \in 1..(i - 1) : Strip(csv_in[j]) # k
C5_Dedup ==
    Loaded =>
        /\ Range(unique_urls) = InputKeys
        /\ Len(unique_urls) = Cardinality(Range(unique_urls))
        /\ \A a \in 1..Len(unique_urls) : \A b \in (a + 1)..Len(unique_urls) :
              FirstOccurrence(unique_urls[a]) < FirstOccurrence(unique_urls[b])
        /\ DOMAIN submitted = Range(unique_urls)
        /\ \A u \in DOMAIN submitted : submitted[u] <= 1
        /\ pc = "done" => \A u \in DOMAIN submitted : submitted[u] = 1

C5_Witness ==
    /\ prog = "GoatFacts" /\ pc = "done"
    /\ Len(csv_in) = 3 /\ Cardinality(InputKeys) = 2
    /\ csv_in[1] # csv_in[3] /\ Strip(csv_in[1]) = Strip(csv_in[3])

\* C6: every output row with a non-empty key carries, field by field, the
\* dict that the one fetch of that key produced, so rows of one key agree.
ResultFields(r) ==
    <<r.story_html, r.story_text, r.brandName, r.color, r.sku, r.designer,
      r.http_status, r.error>>
\* the dict of the fetch of key u as a CSV row shows it (None is written "")
FetchedFields(u) ==
    LET o == fut[u].out
        d == IF o.raised THEN ExceptionRecord ELSE o.value
    IN  <<CsvText(d.story_html), CsvText(d.story_text), CsvText(d.brandName),
          CsvText(d.color), CsvText(d.sku), CsvText(d.designer),
          CsvText(d.http_status), d.error>>
C6_SameKeySameResult ==
    Loaded =>
        \A k \in 1..Len(Rows) :
            Strip(Rows[k].url) # <<>> =>
                /\ Strip(Rows[k].url) \in DOMAIN fut
                /\ fut[Strip(Rows[k].url)].st = "collected"
                /\ ResultFields(Rows[k]) = FetchedFields(Strip(Rows[k].url))

C6_Witness ==
    /\ prog = "GoatFacts"
    /\ \E j, k \in 1..Len(Rows) :
          /\ j # k /\ Strip(Rows[j].url) = Strip(Rows[k].url)
          /\ Rows[j].url # Rows[k].url
          /\ Rows[j].error.kind = "Exception"
    /\ \E k \in 1..Len(Rows) : Rows[k].http_status = "200"

\* C7: an input row with an empty URL cell is written by the first flush, and
\* only ever with the error "No URL".
C7_EmptyUrlIsNoUrl ==
    Loaded =>
        \A i \in 1..Len(csv_in) :
            Strip(csv_in[i]) = <<>> =>
                /\ flushes >= 1 => written_flags[i]
                /\ \A k \in RowsOf(i) :
                      /\ Rows[k].error.kind = "No URL"
                      /\ flushes >= 1 => Rows[k].flush = 1

\* C9: a key that the output file of the earlier run holds with a result is
\* not fetched again.
PriorKeys ==
    {Strip(prior.rows[k].url) : k \in {j \in 1..Len(prior.rows) :
                                        prior.rows[j].http_status = "200"}}
C9_NoRefetch ==
    Loaded => \A u \in PriorKeys : u \in DOMAIN submitted => submitted[u] = 0

\* the products the earlier output holds a Drive URL for
PrevUrls == IF prev.exists THEN ResumeUrls(prev.rows, 1, <<>>) ELSE <<>>

UploadLoaded == prog = "upload_goat_images" /\ pc # "load"

\* C8: a product the earlier OUTPUT_CSV holds a non-empty drive_url for is not
\* downloaded (hence not uploaded) again and every row the run writes for it
\* keeps that drive_url; once the run is through, every product of the work
\* list without one has been downloaded once more
C8_Resume ==
    UploadLoaded =>
        /\ \A k \in DOMAIN PrevUrls :
              /\ k \in DOMAIN started => started[k] = 0
              /\ product_id_to_drive_url[k] = PrevUrls[k]
              /\ \A i \in 1..Len(up_csv.rows) :
                    up_csv.rows[i].pid = k =>
                        up_csv.rows[i].drive_url = PrevUrls[k].text
        /\ pc = "done" =>
              \A k \in DOMAIN started \ DOMAIN PrevUrls : started[k] = 1

C8_Witness ==
    /\ prog = "upload_goat_images" /\ pc = "done" /\ saves > 0
    /\ \E k \in DOMAIN PrevUrls : \E i \in 1..Len(up_csv.rows) :
          /\ up_csv.rows[i].pid = k
          /\ up_csv.rows[i].drive_url = <<"old">>
          /\ started[k] = 0
    /\ \E k \in DOMAIN started \ DOMAIN PrevUrls : \E i \in 1..Len(up_csv.rows) :
          /\ up_csv.rows[i].pid = k
          /\ prev.rows[i].drive_url = <<>>
          /\ up_csv.rows[i].drive_url = <<"new">>
          /\ started[k] = 1

\* the number of the batch that holds position i of a work list cut in chunks of n
BatchOf(i, n) == ((i - 1) \div n) + 1

\* fetch_once has begun for the URL at position j of unique_urls
FetchBegun(j) ==
    /\ unique_urls[j] \in DOMAIN fut
    /\ fut[unique_urls[j]].st # "queued"

\* download_image has begun for the product at position j of products_to_process
DownloadBegun(j) == started[products_to_process[j][1]] > 0

\* C4: when the fetch of a work item of a later batch has begun, every work
\* item of every earlier batch has its outcome in the checkpoint state
\* (results_map, product_id_to_drive_url) and the flush of that earlier batch
\* has run (the rows of its URLs are written, the CSV has been saved)
C4_BatchBarrier ==
    /\ Loaded =>
          \A i, j \in 1..Len(unique_urls) :
              (BatchOf(i, BATCH_SAVE_SIZE) < BatchOf(j, BATCH_SAVE_SIZE) /\ FetchBegun(j))
                  => /\ unique_urls[i] \in DOMAIN results_map
                     /\ fut[unique_urls[i]].st = "collected"
                     /\ flushes >= BatchOf(i, BATCH_SAVE_SIZE)
                     /\ \A r \in 1..Len(df) :
                           UrlVal(df[r]) = unique_urls[i] => written_flags[r]
    /\ UploadLoaded =>
          \A i, j \in 1..Len(products_to_process) :
              (BatchOf(i, BATCH_SIZE) < BatchOf(j, BATCH_SIZE) /\ DownloadBegun(j))
                  => /\ products_to_process[i][1] \in DOMAIN product_id_to_drive_url
                     /\ products_to_process[i][1] \notin DOMAIN tasks
                     /\ saves >= BatchOf(i, BATCH_SIZE)

C4_GoatFactsCase ==
    /\ Loaded
    /\ \E i, j \in 1..Len(unique_urls) :
          /\ BatchOf(i, BATCH_SAVE_SIZE) < BatchOf(j, BATCH_SAVE_SIZE)
          /\ unique_urls[j] \in DOMAIN fut
          /\ fut[unique_urls[j]].st = "running"
          /\ unique_urls[i] \in DOMAIN results_map
          /\ results_map[unique_urls[i]].error.kind = "Failed after"

C4_UploadCase ==
    /\ UploadLoaded
    /\ \E i, j \in 1..Len(products_to_process) :
          /\ BatchOf(i, BATCH_SIZE) < BatchOf(j, BATCH_SIZE)
          /\ products_to_process[j][1] \in DOMAIN tasks
          /\ tasks[products_to_process[j][1]].st = "working"
          /\ products_to_process[i][1] \in DOMAIN product_id_to_drive_url
          /\ product_id_to_drive_url[products_to_process[i][1]] = NoneUrl

C4_Witness == C4_GoatFactsCase \/ C4_UploadCase

\* the number of batches a work list of n items is cut into, k items each
Batches(n, k) == (n + k - 1) \div k

\* GoatFacts.main goes on after any outcome of a fetch: while it collects a
\* batch a fetch is under way, a result waits, a worker can start or the batch
\* is complete; when it is through every unique URL was fetched once,
\* collected and flushed
GoatFactsRunsOn ==
    prog = "GoatFacts" =>
        /\ pc # "crashed"
        /\ pc = "collect" =>
              \/ \E i \in BatchIdx : fut[unique_urls[i]].st \in {"running", "done"}
              \/ \E i \in BatchIdx : NextQueued(i) /\ WorkerFree
              \/ BatchCollected
        /\ pc = "done" =>
              /\ flushes = Batches(Len(unique_urls), BATCH_SAVE_SIZE)
              /\ \A i \in 1..Len(unique_urls) :
                    /\ submitted[unique_urls[i]] = 1
                    /\ fut[unique_urls[i]].st = "collected"
                    /\ unique_urls[i] \in DOMAIN results_map

\* every failed fetch of GoatFacts.main is in the output: the rows of a URL
\* whose worker raised say "Exception", those of a URL whose retries ran out
\* say "Failed after"
GoatFactsFailuresRecorded ==
    (prog = "GoatFacts" /\ pc = "done") =>
        \A i \in 1..Len(unique_urls) :
            LET o == fut[unique_urls[i]].out IN
            \A r \in 1..Len(df) :
                UrlVal(df[r]) = unique_urls[i] =>
                    \E k \in RowsOf(r) :
                        /\ o.raised => Rows[k].error.kind = "Exception"
                        /\ (~o.raised /\ o.value.error.kind = "Failed after")
                              => Rows[k].error = o.value.error

\* scrape_all_products goes on after any outcome of a product: it has a next
\* step until it is through, and then every product was collected
PdpRunsOn ==
    prog = "goatPDPAPI" =>
        /\ pc # "crashed"
        /\ pc \notin {"done", "exit"} => ENABLED NextPdp
        /\ pc = "done" => \A i \in 1..Len(products) : fate[i] # "-"

\* every product whose API fetch ran out of retries, or whose worker raised,
\* has a row in the output of scrape_all_products
PdpFailuresRecorded ==
    (prog = "goatPDPAPI" /\ pc = "done") =>
        \A i \in 1..Len(products) :
            fate[i] \in {"no api data", "exception"} =>
                \E k \in 1..Len(pdp_csv.rows) : pdp_csv.rows[k].product = i

\* C10: a work item whose fetch exhausts its retries, or whose worker raises,
\* yields a recorded per-item failure and never aborts the batch or the run
C10_FailureRecordedRunGoesOn ==
    /\ GoatFactsRunsOn
    /\ GoatFactsFailuresRecorded
    /\ PdpRunsOn
    /\ PdpFailuresRecorded

C12_NoProductOmitted ==
    (prog = "goatPDPAPI" /\ pc = "done") =>
        \A i \in 1..Len(products) :
            \E k \in 1..Len(pdp_csv.rows) : pdp_csv.rows[k].product = i

\* the transports of a loop in their declared order: the three personas of
\* try_curl_cffi when curl_cffi is installed, try_cloudscraper, and in the JSON
\* loops the plain requests session
DeclaredOrder(f, hc) ==
    (IF hc THEN Personas ELSE <<>>) \o <<"cloudscraper">>
        \o (IF f \in JsonLoops THEN <<"requests">> ELSE <<>>)

\* the transports invoked so far in the current attempt
Called == [i \in 1..Len(calls) |-> calls[i].via]

IsPrefix(s, t) == Len(s) <= Len(t) /\ \A i \in 1..Len(s) : s[i] = t[i]

C14_FirstResponseWins ==
    prog = "retry" =>
        /\ \A i \in 1..(Len(calls) - 1) : calls[i].got = "raise"
        /\ (calls # <<>> /\ calls[Len(calls)].got # "raise") =>
              /\ stage \in {"handle", "top"}
              /\ resp.status = calls[Len(calls)].got
              /\ stage = "top" => loop.last_status = calls[Len(calls)].got

C14_Witness ==
    /\ prog = "retry" /\ have_curl /\ stage = "top"
    /\ Len(calls) = 2
    /\ calls[1].got = "raise"
    /\ calls[2] = [via |-> "chrome123", got |-> "404"]
    /\ loop.last_status = "404"

\* every transport of the declared order was called in the current attempt and
\* every one raised
AllTransportsRaised ==
    /\ Called = DeclaredOrder(fn, have_curl)
    /\ \A i \in 1..Len(calls) : calls[i].got = "raise"

AttemptGot(s) ==
    /\ stage = "top" /\ calls # <<>>
    /\ calls[Len(calls)].got = s

\* C16: in every retry loop a 429 response at the attempt of index i is
\* followed by a sleep of 2 + i seconds and one more iteration; the loop
\* returns after a 429 only when that was its last iteration
C16_RateLimitBackoff ==
    (prog = "retry" /\ AttemptGot("429")) =>
        /\ loop.attempt = attempts
        /\ loop.waits[attempts] = 2 + (attempts - 1)
        /\ loop.returned => attempts = MAX_RETRIES

\* C17: fetch_product_data and fetch_json_page return a result only from an
\* attempt whose response has status 200 and a body that parses as JSON; after
\* any other status (404 as well) and after a 200 whose body does not parse
\* the loop has used one iteration and goes on, returning None only after the
\* last one
C17_OnlyParsed200Ends ==
    (prog = "retry" /\ fn \in JsonLoops /\ stage = "top" /\ calls # <<>>) =>
        LET got == calls[Len(calls)].got
            good == got = "200" /\ resp.body # "garbled"
        IN  /\ (loop.returned /\ loop.value # None) =>
                  (good /\ loop.value = resp.body)
            /\ ~good =>
                  /\ loop.attempt = attempts
                  /\ loop.returned => (attempts = MAX_RETRIES /\ loop.value = None)
            /\ (~good /\ ~loop.returned /\ attempts < MAX_RETRIES)
                  => ENABLED BeginAttempt

C17_Witness ==
    /\ prog = "retry" /\ fn = "fetch_json_page" /\ stage = "top"
    /\ attempts = 2 /\ loop.attempt = 2 /\ ~loop.returned
    /\ calls # <<>>
    /\ calls[Len(calls)].got = "200"
    /\ resp.body = "garbled"
    /\ loop.waits = <<1, 2>>

\* C18: the rows one call of append_resolved_rows_to_output appends stand in
\* the output in the order of their input rows, in whatever order the fetches
\* of the batch completed
C18_FlushInInputOrder ==
    Loaded =>
        \A j, k \in 1..Len(Rows) :
            (j < k /\ Rows[j].by = "flush" /\ Rows[k].by = "flush"
                /\ Rows[j].flush = Rows[k].flush)
                => Rows[j].idx < Rows[k].idx

C18_Witness ==
    /\ Loaded /\ pc = "batch" /\ flushes >= 1
    /\ Len(completed) = 2
    /\ \E j, k \in 1..Len(Rows) :
          /\ j < k
          /\ Rows[j].by = "flush" /\ Rows[j].flush = flushes
          /\ Rows[k].by = "flush" /\ Rows[k].flush = flushes
          /\ UrlVal(df[Rows[j].idx]) = completed[2]
          /\ UrlVal(df[Rows[k].idx]) = completed[1]

\* fetch_once or fetch_product_page_html has returned and its last attempt
\* did not get a 200 response
HtmlFetchFailed ==
    /\ prog = "retry" /\ fn \in HtmlLoops
    /\ loop.returned /\ resp.status # "200"

\* C19: the dict a failed fetch_once or fetch_product_page_html returns has
\* the empty string in its six domain fields, and its error is the "Failed
\* after" text with the number of attempts made and the status of the last
\* response any attempt got (None when none got one)
C19_FailureRecord ==
    HtmlFetchFailed =>
        /\ \A f \in {"story_html", "story_text", "brandName", "color", "sku",
                     "designer"} : loop.value[f] = ""
        /\ loop.value.error.kind = "Failed after"
        /\ loop.value.error.attempts = attempts
        /\ loop.value.error.last_status = loop.last_status
        /\ resp # NoResp => loop.value.error.last_status = resp.status
        /\ answered = "-" => loop.value.error.last_status = None
        /\ loop.value.http_status = loop.value.error.last_status

C19_Witness ==
    /\ HtmlFetchFailed /\ fn = "fetch_product_page_html"
    /\ resp = NoResp
    /\ loop.value.error = [kind |-> "Failed after", attempts |-> 5,
                           last_status |-> "429"]
    /\ loop.value.story_html = ""

\* fetch_once or fetch_product_page_html has returned from a 200 response
\* whose page has no __NEXT_DATA__ script or no storyHtml in it
HtmlUnparsed200 ==
    /\ prog = "retry" /\ fn \in HtmlLoops
    /\ loop.returned /\ resp.status = "200"
    /\ resp.body \in {"nodata", "nullmeta"}

\* C20: a 200 response whose body cannot be parsed gives a record with empty
\* domain fields and a non-empty error text
C20_ParseErrorReported ==
    HtmlUnparsed200 =>
        /\ \A f \in {"story_html", "story_text", "brandName", "color", "sku",
                     "designer"} : loop.value[f] = ""
        /\ loop.value.error.kind # ""

C22_CancelledIsRecorded ==
    [][(prog = "GoatFacts" /\ pc = "interrupted") =>
          /\ out_file' = out_file
          /\ batch_start' = batch_start
          /\ \A u \in DOMAIN fut :
                (fut[u].st = "running" /\ fut'[u].st # "running") =>
                    /\ u \in DOMAIN results_map'
                    /\ results_map'[u].error = ErrorOf("Cancelled")]_vars

\* new_columns, and what a complete row of the output file looks like
NewColumns ==
    {"story_html", "story_text", "brandName", "color", "sku", "designer",
     "http_status"}

C23_SchemaComplete(r) ==
    /\ NewColumns \cup {"url", "error"} \subseteq DOMAIN r
    /\ \A c \in NewColumns : r[c] # None
    /\ r.url \in Seq({" ", "a", "b", "c"})
    /\ r.error.kind \in {"", "Failed after", "Exception", "No URL", "Not fetched"}

\* C23: every row GoatFacts writes has a value for every column of
\* output_headers, and a None or missing value is the empty string in the file:
\* for a success, a failure, an empty URL and a row of the final sweep alike.
C23_EveryRowSchemaComplete ==
    prog = "GoatFacts" =>
        /\ \A k \in 1..Len(out_file.rows) : C23_SchemaComplete(out_file.rows[k])
        /\ out_file.rows # <<>> => out_file.headers = 1

C23_Witness ==
    /\ prog = "GoatFacts" /\ pc = "done"
    /\ \E i, j, k \in 1..Len(out_file.rows) :
          /\ out_file.rows[i].error.kind = "Exception"
          /\ out_file.rows[i].http_status = ""
          /\ out_file.rows[j].error.kind = "No URL"
          /\ out_file.rows[k].by = "sweep"
          /\ out_file.rows[k].error.kind = "Not fetched"

\* the attempt that just ended failed and the loop slept and went on
C24_FailedAttempt ==
    /\ prog = "retry" /\ stage = "top" /\ attempts >= 1
    /\ loop.attempt = attempts

\* C24: after a failed attempt of index i that did not get a 429, every retry
\* loop sleeps 1 + i seconds, so the waits of a call grow linearly (1, 2, 3,
\* ...; a 429 of the JSON loops adds one second) and never double.
C24_LinearBackoff ==
    (C24_FailedAttempt /\ ~AttemptGot("429")) =>
        /\ Len(loop.waits) = attempts
        /\ loop.waits[attempts] = 1 + (attempts - 1)
        /\ \A k \in 1..Len(loop.waits) : loop.waits[k] \in {k, k + 1}

C24_Witness ==
    /\ C24_FailedAttempt /\ AttemptGot("500")
    /\ fn = "fetch_product_data"
    /\ loop.waits = <<1, 2, 3, 4>>

\* the claim as stated: HTML page requests and API requests in flight, taken
\* together, never number more than MAX_WORKERS
C25_FetchesWithinWorkers ==
    prog = "goatPDPAPI" =>
        Cardinality(HtmlInFlight) + Cardinality(ApiInFlight) <= PDP_MAX_WORKERS

\* C25 (amended): in scrape_all_products no more than MAX_WORKERS products are
\* being fetched at a time, also when the batch holds more products than that;
\* each of them has its HTML page request and its API request in flight
\* together, so neither kind numbers more than MAX_WORKERS and both together
\* never more than 2 * MAX_WORKERS.
C25_ProductsWithinWorkers ==
    prog = "goatPDPAPI" =>
        /\ Cardinality(ProductsRunning) <= PDP_MAX_WORKERS
        /\ Cardinality(HtmlInFlight) <= PDP_MAX_WORKERS
        /\ Cardinality(ApiInFlight) <= PDP_MAX_WORKERS
        /\ Cardinality(HtmlInFlight) + Cardinality(ApiInFlight) <= 2 * PDP_MAX_WORKERS

C25_Witness ==
    /\ prog = "goatPDPAPI" /\ pc = "collect"
    /\ Cardinality(ProductsRunning) = PDP_MAX_WORKERS
    /\ Cardinality(HtmlInFlight) + Cardinality(ApiInFlight) = 2 * PDP_MAX_WORKERS
    /\ \E i \in DOMAIN future_to_product : future_to_product[i].st = "queued"

\* no call of fetch_once of the batch is still queued or running
C26_FetchesOver ==
    \A u \in DOMAIN fut : fut[u].st \notin {"queued", "running"}

\* no coroutine of the batch is still waiting for the semaphore or working
C26_TasksOver ==
    \A k \in DOMAIN tasks : tasks[k].st \notin {"created", "working"}

\* C26: the key-to-result map and the written flags are written only after
\* the batch barrier, by the coordinating thread or task and never by a worker:
\* no step changes results_map or written_flags while a fetch of the batch is
\* queued or running, and none changes product_id_to_drive_url or
\* product_id_to_dimensions while a coroutine of the batch is not yet through.
C26_CheckpointWrittenAfterBarrier ==
    [][/\ (prog = "GoatFacts"
             /\ (results_map' # results_map \/ written_flags' # written_flags))
          => C26_FetchesOver
       /\ (prog = "upload_goat_images"
             /\ (product_id_to_drive_url' # product_id_to_drive_url
                   \/ product_id_to_dimensions' # product_id_to_dimensions))
          => C26_TasksOver]_vars

\* the keys of the batches flushed so far
C27_ResolvedKeys ==
    {unique_urls[j] : j \in {x \in 1..Len(unique_urls) : x <= batch_start}}

\* C27: right after the flush that follows batch N, an input row is marked
\* written if and only if its URL is empty or is a key of batches 1..N, and no
\* row with a non-empty URL is in the output before its batch was flushed.
C27_WrittenIffResolved ==
    (prog = "GoatFacts" /\ pc = "batch" /\ flushes >= 1) =>
        /\ \A i \in 1..Len(csv_in) :
              written_flags[i] <=>
                  (Strip(csv_in[i]) = <<>> \/ Strip(csv_in[i]) \in C27_ResolvedKeys)
        /\ \A k \in 1..Len(Rows) :
              Strip(Rows[k].url) # <<>> => Strip(Rows[k].url) \in C27_ResolvedKeys

\* a written flag stays true, and no key leaves results_map or
\* product_id_to_drive_url
C28_FlagsAndKeysKept ==
    /\ prog = "GoatFacts" =>
          /\ \A i \in DOMAIN written_flags :
                written_flags[i] => (i \in DOMAIN written_flags' /\ written_flags'[i])
          /\ DOMAIN results_map \subseteq DOMAIN results_map'
    /\ prog = "upload_goat_images" =>
          DOMAIN product_id_to_drive_url \subseteq DOMAIN product_id_to_drive_url'

\* the claim as stated: the flags and keys are kept, and the result a key is
\* mapped to never differs from the one it was mapped to before
C28_ResultNeverDiffers ==
    [][/\ C28_FlagsAndKeysKept
       /\ prog = "GoatFacts" =>
             \A u \in DOMAIN results_map : results_map'[u] = results_map[u]
       /\ prog = "upload_goat_images" =>
             \A k \in DOMAIN product_id_to_drive_url :
                 product_id_to_drive_url'[k] = product_id_to_drive_url[k]]_vars

\* C28 (amended): during a run a written flag never goes from true to false
\* and a key with a result is never removed from the map nor given the result
\* of another fetch; the one later change of a stored result is that the flush
\* of GoatFacts replaces the None fields of the dict by the empty string.
C28_NeverRolledBack ==
    [][/\ C28_FlagsAndKeysKept
       /\ prog = "GoatFacts" =>
             \A u \in DOMAIN results_map :
                 results_map'[u] \in {results_map[u], EnsureColumns(results_map[u])}
       /\ prog = "upload_goat_images" =>
             \A k \in DOMAIN product_id_to_drive_url :
                 product_id_to_drive_url'[k] = product_id_to_drive_url[k]]_vars

C28_Witness ==
    /\ prog = "GoatFacts" /\ pc = "batch" /\ flushes = 2
    /\ \E i \in DOMAIN written_flags : written_flags[i]
    /\ \E u \in DOMAIN results_map :
          /\ results_map[u].error.kind = "Exception"
          /\ results_map[u].http_status = ""
          /\ fut[u].out.raised

\* the positions of a work list of n items that batch number b of size k holds
C29_Chunk(b, n, k) == {i \in 1..n : BatchOf(i, k) = b}

\* C29: the unique work list is cut in order into consecutive batches: batch
\* number b is the positions (b-1)*batchSize+1 .. b*batchSize of the list, cut
\* off at its end, so every batch but the last holds batchSize items and the
\* last between 1 and batchSize; the batches run in list order, every item in
\* exactly one of them (unique_urls of GoatFacts.main, products_to_process of
\* upload_goat_images).
C29_ConsecutiveBatches ==
    /\ (prog = "GoatFacts" /\ pc = "collect") =>
          /\ BatchIdx = C29_Chunk(flushes + 1, total_unique, BATCH_SAVE_SIZE)
          /\ Cardinality(BatchIdx) \in 1..BATCH_SAVE_SIZE
          /\ flushes + 1 < Batches(total_unique, BATCH_SAVE_SIZE)
                => Cardinality(BatchIdx) = BATCH_SAVE_SIZE
          /\ \A i \in 1..total_unique :
                submitted[unique_urls[i]] =
                    IF BatchOf(i, BATCH_SAVE_SIZE) <= flushes + 1 THEN 1 ELSE 0
    /\ (prog = "GoatFacts" /\ pc = "done") =>
          /\ flushes = Batches(total_unique, BATCH_SAVE_SIZE)
          /\ \A i \in 1..total_unique : submitted[unique_urls[i]] = 1
    /\ (prog = "upload_goat_images" /\ pc = "gather") =>
          /\ BatchRange = C29_Chunk(saves + 1, Len(products_to_process), BATCH_SIZE)
          /\ Cardinality(BatchRange) \in 1..BATCH_SIZE
          /\ saves + 1 < Batches(Len(products_to_process), BATCH_SIZE)
                => Cardinality(BatchRange) = BATCH_SIZE
          /\ DOMAIN tasks \subseteq {products_to_process[i][1] : i \in BatchRange}
          /\ \A i \in 1..Len(products_to_process) :
                DownloadBegun(i) => BatchOf(i, BATCH_SIZE) <= saves + 1
    /\ (prog = "upload_goat_images" /\ pc = "done") =>
          saves = Batches(Len(products_to_process), BATCH_SIZE)

C29_Witness ==
    /\ prog = "GoatFacts" /\ pc = "collect"
    /\ total_unique = BATCH_SAVE_SIZE + 1 /\ flushes = 1
    /\ BatchIdx = {total_unique}
    /\ fut[unique_urls[1]].st = "collected"
    /\ fut[unique_urls[total_unique]].st = "running"

\* file b is file a with rows added at its end and the header left alone
C30_Appended(a, b) ==
    /\ b.exists /\ b.headers = a.headers
    /\ Len(a.rows) <= Len(b.rows)
    /\ SubSeq(b.rows, 1, Len(a.rows)) = a.rows

\* the output file of the run holds one header and only rows of this run
C30_FreshWithHeader ==
    /\ Loaded =>
          /\ out_file.exists <=> header_written
          /\ out_file.headers = IF header_written THEN 1 ELSE 0
          /\ Len(out_file.rows) = Cardinality({i \in 1..Len(df) : written_flags[i]})
    /\ (prog = "goatPDPAPI" /\ pc \in {"batch", "collect", "done"}) =>
          /\ pdp_csv.exists /\ pdp_csv.headers = 1
          /\ \A k \in 1..Len(pdp_csv.rows) :
                /\ pdp_csv.rows[k].product <= products_start
                /\ fate[pdp_csv.rows[k].product] = "rows"
    /\ (prog = "listingsAPI" /\ wrote_header) =>
          /\ goat_listings.exists /\ goat_listings.headers = 1
          /\ goat_listings.rows = all_data

\* a step of the run that changes the output file after its creation appends
C30_OnlyAppended ==
    /\ (Loaded /\ header_written /\ out_file' # out_file)
          => C30_Appended(out_file, out_file')
    /\ (prog = "goatPDPAPI" /\ pc # "start" /\ pdp_csv' # pdp_csv)
          => C30_Appended(pdp_csv, pdp_csv')
    /\ (prog = "listingsAPI" /\ wrote_header /\ goat_listings' # goat_listings)
          => C30_Appended(goat_listings, goat_listings')

\* C30: the output file is created anew with its header and from then on only
\* appended to: at any time of the run it holds the header once, written
\* with or before the first row and only rows of this run, and no later write
\* removes or changes a row written earlier (OUTPUT_CSV of GoatFacts.main and
\* of goatPDPAPI.scrape_all_products, goat_listings.csv of listingsAPI).
C30_CreatedFreshThenAppended ==
    []C30_FreshWithHeader /\ [][C30_OnlyAppended]_vars

C30_Witness ==
    /\ prog = "listingsAPI" /\ pc = "page" /\ base_url = 2 /\ page_number = 2
    /\ wrote_header /\ goat_listings.headers = 1
    /\ Len(goat_listings.rows) = 3 /\ goat_listings.rows[1] # "x"

\* fetch_product_complete has been started for the product at position i of
\* products: its future has left the queue, or the collect loop is through it
ProductFetched(i) ==
    \/ fate[i] # "-"
    \/ /\ i \in DOMAIN future_to_product
       /\ future_to_product[i].st # "queued"

\* C31: in scrape_all_products an input that names the same Product ID in
\* several rows is reduced to a unique work set: no two rows with the same
\* Product ID are both fetched in one run
C31_EachProductIdFetchedOnce ==
    prog = "goatPDPAPI" =>
        \A i \in 1..Len(products) : \A j \in 1..Len(products) :
            (i < j /\ products[i] = products[j]) =>
                ~(ProductFetched(i) /\ ProductFetched(j))

\* fetch_once or fetch_product_page_html has returned its dict
HtmlFetchReturned ==
    /\ prog = "retry" /\ fn \in HtmlLoops
    /\ loop.returned

\* C32: the dict fetch_once or fetch_product_page_html returns is a success
\* (error "" and http_status 200) or a failure (a non-empty error and an
\* http_status that is a status other than 200, or None), never anything
\* else: error is empty exactly when http_status is 200
C32_SuccessOrFailure ==
    HtmlFetchReturned =>
        /\ \/ /\ loop.value.error = NoError
              /\ loop.value.http_status = "200"
           \/ /\ loop.value.error.kind # ""
              /\ loop.value.http_status \in (Statuses \ {"200"}) \cup {None}
        /\ loop.value.error.kind = "" <=> loop.value.http_status = "200"

\* a failure without a status: no transport of any of the five attempts gave a
\* response
C32_Witness ==
    /\ HtmlFetchReturned /\ fn = "fetch_once"
    /\ attempts = MAX_RETRIES /\ answered = "-"
    /\ loop.value.error.kind = "Failed after"
    /\ loop.value.http_status = None

\* C33: over all pages of all SEARCH_URLS each product id is written to
\* goat_listings.csv at most once, also when a page holds the id twice or
\* pages of different search URLs hold it, and a product without an id is
\* never written
C33_EachIdWrittenOnce ==
    (prog = "listingsAPI" /\ wrote_header) =>
        /\ \A i \in 1..Len(goat_listings.rows) : \A j \in 1..Len(goat_listings.rows) :
              i < j => goat_listings.rows[i] # goat_listings.rows[j]
        /\ \A i \in 1..Len(goat_listings.rows) : goat_listings.rows[i] # None

\* a product of the page brings nothing new: it has no id, or its id is in
\* written_product_ids
C34_NothingNew(d, written) ==
    \A i \in 1..Len(d.productsList) :
        d.productsList[i] = None \/ d.productsList[i] \in written

\* the page ends its search URL: it could not be fetched, holds no product,
\* holds fewer products than pageLimit, or holds no new id
C34_LastPage(d, written) ==
    \/ d.kind \in {"none", "no_products"}
    \/ Len(d.productsList) < d.pageLimit
    \/ C34_NothingNew(d, written)

\* a round of the page loop that goes on to the next page has added an id to
\* written_product_ids, and a round whose page ends the search URL leaves it
C34_Round ==
    (prog = "listingsAPI" /\ pc = "page") =>
        /\ (pc' = "page" /\ base_url' = base_url) =>
              /\ page_number' = page_number + 1
              /\ written_product_ids \subseteq written_product_ids'
              /\ written_product_ids' # written_product_ids
        /\ C34_LastPage(data', written_product_ids) =>
              \/ pc' = "done"
              \/ base_url' = base_url + 1 /\ page_number' = 1

\* C34: scrape_all_pages terminates whatever the server answers, as long as
\* the product ids are finitely many: every round that goes on to the next
\* page has added a new id to written_product_ids, and a page that is
\* unfetchable, empty, shorter than pageLimit or without new ids ends the
\* current search URL
C34_Terminates ==
    /\ [][C34_Round]_vars
    /\ <>(prog = "listingsAPI" /\ pc = "done")

\* the run is over after a third page of the last search URL, which was full
\* but held no new id
C34_Witness ==
    /\ prog = "listingsAPI" /\ pc = "done"
    /\ page_number = 3 /\ written_product_ids = OnlineIds
    /\ data.kind = "page" /\ Len(data.productsList) = data.pageLimit

\* C35: when a retry loop has used up its attempts, the status it reports
\* (http_status and the last_status of the error text of the HTML loops, the
\* last_status of the log line of the JSON loops) is the status of the latest
\* response any attempt got, and None only if no attempt got one; an attempt
\* after it that failed in every transport has not reset it
C35_LatestStatusReported ==
    (prog = "retry" /\ ExhaustedFailure) =>
        /\ loop.last_status = answered_status
        /\ fn \in HtmlLoops =>
              /\ loop.value.error.last_status = answered_status
              /\ loop.value.http_status = answered_status
        /\ loop.last_status = None <=> answered = "-"

\* the last attempt got no response from any transport, and the loop reports
\* the 404 of an attempt before it
C35_Witness ==
    /\ prog = "retry" /\ ExhaustedFailure /\ fn = "fetch_product_data"
    /\ resp = NoResp /\ calls # <<>>
    /\ \A k \in 1..Len(calls) : calls[k].got = "raise"
    /\ loop.last_status = "404"

\* the attempts of the call so far that did not put the file on Drive
FailedUploads == {k \in 1..Len(uploader.tries) : uploader.tries[k] \in UploadCalls}
\* the attempts of the call so far, failed or not
UploadAttempts ==
    {k \in 1..Len(uploader.tries) : uploader.tries[k] \in UploadCalls \cup {"uploaded"}}

\* C36: _upload_file_blocking_with_retries makes at most RETRY_ATTEMPTS upload
\* attempts and none after the first that succeeded, whether or not the
\* public permission could be set; it has slept RETRY_BASE_DELAY * 2^(k-1)
\* seconds after its k-th failed attempt (1, 2, 4); and it returns None only
\* after exactly RETRY_ATTEMPTS failures or for a file that does not exist
C36_UploadRetries ==
    prog = "_upload_file_blocking_with_retries" =>
        /\ Cardinality(UploadAttempts) <= RETRY_ATTEMPTS
        /\ \A k \in UploadAttempts :
              uploader.tries[k] = "uploaded" =>
                  \A j \in UploadAttempts : j <= k
        /\ pc \in {"while", "returned"} =>
              /\ Len(uploader.delays) = Cardinality(FailedUploads)
              /\ \A k \in 1..Len(uploader.delays) :
                    uploader.delays[k] = RETRY_BASE_DELAY * 2 ^ (k - 1)
              /\ Len(uploader.delays) = 3 => uploader.delays = <<1, 2, 4>>
        /\ pc = "returned" =>
              /\ uploader.value = None <=>
                    \/ uploader.file_path # "present"
                    \/ Cardinality(FailedUploads) = RETRY_ATTEMPTS
              /\ uploader.file_path # "present" => uploader.tries = <<>>
              /\ uploader.value # None =>
                    uploader.tries[Len(uploader.tries) - 1] = "uploaded"

\* the third attempt put the file on Drive after two that raised; the
\* permission could not be set and the link is returned all the same
C36_Witness ==
    /\ prog = "_upload_file_blocking_with_retries" /\ pc = "returned"
    /\ uploader.tries = <<"Upload", "SetContentFile", "uploaded", "permission raised">>
    /\ uploader.delays = <<1, 2>>
    /\ uploader.value = "alternateLink"

\* the drive_url recorded for the product of a row, whose key is the stripped
\* Product ID; the empty text when none is recorded or None is
RecordedUrl(row) ==
    LET product_id == Strip(row.pid) IN
    IF product_id \in DOMAIN product_id_to_drive_url
           /\ Valid(product_id_to_drive_url[product_id])
    THEN product_id_to_drive_url[product_id].text
    ELSE <<>>

\* C37: after every batch of process_all_in_batches, also one whose items all
\* failed or were all skipped, the output CSV holds exactly one row per input
\* row in input order, and the drive_url of each row is the value recorded for
\* its product at that time, empty for a product not yet processed or failed
C37_CsvAfterEveryBatch ==
    (prog = "upload_goat_images" /\ pc \in {"batch", "done"} /\ saves > 0) =>
        /\ Len(up_csv.rows) = Len(listings)
        /\ \A i \in 1..Len(listings) :
              /\ up_csv.rows[i].pid = listings[i].pid
              /\ up_csv.rows[i].pic = listings[i].pic
              /\ up_csv.rows[i].drive_url = RecordedUrl(listings[i])

\* the transports of an attempt of the JSON loops in the order the claim gives
C38_Order == <<"chrome124", "chrome123", "chrome120", "cloudscraper", "requests">>

\* C38: within one attempt of fetch_product_data or fetch_json_page the
\* transports are invoked at most 5 times: curl_cffi as chrome124, chrome123,
\* chrome120 in that order until one of them returns a response, then
\* cloudscraper once, then plain requests once, each only when none before it
\* returned a response; so a call issues at most 5 * MAX_RETRIES requests
C38_TransportsPerAttempt ==
    (prog = "retry" /\ fn \in JsonLoops) =>
        /\ Len(calls) <= 5
        /\ have_curl =>
              \A k \in 1..Len(calls) : calls[k].via = C38_Order[k]
        /\ ~have_curl =>
              /\ Len(calls) <= 2
              /\ \A k \in 1..Len(calls) : calls[k].via = C38_Order[3 + k]
        /\ \A k \in 1..(Len(calls) - 1) : calls[k].got = "raise"
        /\ requests_issued <= 5 * MAX_RETRIES
        /\ requests_issued <= 5 * attempts

\* all five transports raised in each of the five attempts: 25 requests
C38_Witness ==
    /\ prog = "retry" /\ fn = "fetch_json_page" /\ have_curl
    /\ loop.returned /\ attempts = MAX_RETRIES
    /\ Len(calls) = 5 /\ calls[5] = [via |-> "requests", got |-> "raise"]
    /\ requests_issued = 25

RECURSIVE SumOf(_)
SumOf(q) == IF q = <<>> THEN 0 ELSE Head(q) + SumOf(Tail(q))

\* C39: the retry loops sleep after every failed attempt, the last one as
\* well: a call that has failed all MAX_RETRIES attempts, none of them with a
\* 429 response, has slept once per attempt and 1 + 2 + ... + MAX_RETRIES
\* seconds in all (15 for MAX_RETRIES = 5) when it returns its failure
C39_TotalWait ==
    prog = "retry" =>
        /\ Len(loop.waits) = loop.attempt
        /\ (ExhaustedFailure /\ ~rate_limited) =>
              /\ Len(loop.waits) = MAX_RETRIES
              /\ loop.waits = <<1, 2, 3, 4, 5>>
              /\ SumOf(loop.waits) = (MAX_RETRIES * (MAX_RETRIES + 1)) \div 2
              /\ SumOf(loop.waits) = 15

\* fetch_once has given up after five attempts that ended with a 500, a 404 or
\* no response, and has slept 15 seconds
C39_Witness ==
    /\ prog = "retry" /\ ExhaustedFailure /\ fn = "fetch_once"
    /\ ~rate_limited /\ loop.last_status = "500" /\ resp = NoResp
    /\ SumOf(loop.waits) = 15

============================================================================
